---- MODULE Spec2Model ----
(***************************************************************************)
(* A model of the MCP server of mcp-ai-server: the session core of the     *)
(* stdio and WebSocket servers, the tool registry (ToolManager) and the    *)
(* client-side request/response correlation (stdioConnection and the      *)
(* console client).                                                        *)
(***************************************************************************)
EXTENDS Integers, Sequences, FiniteSets, TLC

(***************************************************************************)
(* Bounds of the model.                                                    *)
(***************************************************************************)
\* WebSocket connections that may be opened against one server.
MaxConns == 2

(***************************************************************************)
(* Protocol constants.                                                     *)
(***************************************************************************)
JSONRPCVersion == "2.0"
ParseErrorCode == -32700
InvalidRequestCode == -32600
MethodNotFoundCode == -32601
InvalidParamsCode == -32602
InternalErrorCode == -32603
ServerErrorCode == -32000
\* The literal the WebSocket handlers answer with while not initialized.
WsNotInitializedCode == -32002

\* "no value": a nil id, a nil *ClientInfo.
Nil == "<nil>"

(***************************************************************************)
(* Messages on the wire.  A frame or line either fails to decode (wire is  *)
(* "syntax": not JSON; "type": JSON whose fields have the wrong type) or   *)
(* decodes to a Message.  params is the raw JSON of the params field.      *)
(***************************************************************************)
KnownTool == "file_read"
UnknownTool == "nonexistent_tool"

\* params: shape "absent" (no params field), "array" (JSON that is no
\* object) or "object".  name and clientInfo describe the object's fields:
\* "<missing>", "<number>" (present with a non-string value) or the string.
\* arguments is the raw "arguments" member handed on to the tool.
NoParams ==
    [shape |-> "absent", name |-> "<missing>", clientInfo |-> "<missing>",
     arguments |-> Nil]
ArrayParams ==
    [shape |-> "array", name |-> "<missing>", clientInfo |-> "<missing>",
     arguments |-> Nil]
ObjParams(n, ci) ==
    [shape |-> "object", name |-> n, clientInfo |-> ci, arguments |-> "{}"]

Msg(w, v, i, me, p, r, e) ==
    [wire |-> w, jsonrpc |-> v, id |-> i, method |-> me, params |-> p,
     hasResult |-> r, hasError |-> e]

Request(i, me, p) == Msg("ok", JSONRPCVersion, i, me, p, FALSE, FALSE)

InitializeParamsSet ==
    {ObjParams("<missing>", "t"), ObjParams("<missing>", "<missing>"),
     ObjParams("<missing>", "<number>"), NoParams}
ToolCallParamsSet ==
    {ObjParams(KnownTool, "<missing>"), ObjParams(UnknownTool, "<missing>"),
     ObjParams("<missing>", "<missing>"), ObjParams("<number>", "<missing>"),
     ArrayParams, NoParams}

\* Every kind of request under id "1", and two of them under id "2" as well.
Requests ==
    {Request("1", "initialize", p) : p \in InitializeParamsSet}
    \cup {Request("1", "tools/call", p) : p \in ToolCallParamsSet}
    \cup {Request("1", me, NoParams) :
            me \in {"tools/list", "shutdown", "resources/read", "bogus"}}
    \cup {Request("1", "resources/read", ObjParams("<missing>", "<missing>"))}
    \cup {Request("2", "tools/list", NoParams), Request("2", "shutdown", NoParams)}

\* Messages that are no well-formed request.
OtherMessages ==
    {Msg("syntax", "", Nil, "", NoParams, FALSE, FALSE),
     Msg("type", "", Nil, "", NoParams, FALSE, FALSE),
     Msg("ok", "1.0", "1", "tools/list", NoParams, FALSE, FALSE),
     Msg("ok", JSONRPCVersion, "1", "", NoParams, FALSE, FALSE),
     Msg("ok", JSONRPCVersion, Nil, "initialize", NoParams, FALSE, FALSE),
     Msg("ok", JSONRPCVersion, Nil, "tools/list", NoParams, FALSE, FALSE),
     Msg("ok", JSONRPCVersion, "1", "", NoParams, TRUE, FALSE),
     Msg("ok", JSONRPCVersion, Nil, "", NoParams, FALSE, TRUE)}

InputMessages == Requests \cup OtherMessages

(***************************************************************************)
(* Message classification (mcp.Message).                                   *)
(***************************************************************************)
\* Validate with the version check left out.
Validate_IgnoresVersion(m) ==
    ~ (m.method = "" /\ ~m.hasResult /\ ~m.hasError)

Validate(m) ==
    ~ (m.jsonrpc # JSONRPCVersion
       \/ (m.method = "" /\ ~m.hasResult /\ ~m.hasError))

IsRequest(m) == m.method # "" /\ m.id # Nil

IsResponse(m) == (m.hasResult \/ m.hasError) /\ m.id # Nil

IsNotification(m) == m.method # "" /\ m.id = Nil

(***************************************************************************)
(* State.                                                                  *)
(***************************************************************************)
VARIABLES
    \* tool registry (tools.ToolManager)
    groups,       \* provider group -> the list its GetTools() returns
    toolMap,      \* ToolManager.toolMap: tool name -> provider group
    regPos,       \* number of provider groups NewToolManager has registered
    execLast,     \* the last ToolManager.ExecuteTool call and what it did
    \* server (cmd/server, mcp.BaseServer, StdioServer, WebSocketServer)
    mode,         \* -mode flag: "stdio" or "websocket" ("none": no server)
    initialized,  \* BaseServer.initialized
    clientInfo,   \* BaseServer.clientInfo (the peer's name, or Nil)
    conns,        \* WebSocketServer.conns
    sock,         \* per WebSocket connection: "none", "open", "closed"
    loop,         \* per WebSocket connection: handleConnection's position
    httpUp,       \* the HTTP listener accepts upgrades
    stPc,         \* StdioServer.handleMessages' position
    ctxDone,      \* StdioServer.ctx is cancelled
    stopPending,  \* a "go s.Stop()" goroutine is spawned and has not run
    decErr,       \* the json.Decoder of handleMessages holds a sticky error
    last,         \* the last message a server handled and what it did
    sess,         \* per connection: what the peer has seen of its session
    \* client (mcp.StdioClient over mcp.stdioConnection, or the console client)
    cKind,        \* "stdio" (StdioClient over stdioConnection) or "console"
    running,      \* stdioConnection.running / ImprovedMCPClient.running
    responses,    \* the pending table: key -> Awaiting or a response
    responseCh,   \* stdioConnection.responseCh
    requestID,    \* ImprovedMCPClient.requestID
    sentReqs,     \* the requests written to the server so far
    inbox,        \* responses the server wrote that the client has not read
    caller,       \* the client operation in progress
    waitLast,     \* the last return of WaitForResponse
    handledGens,  \* requests whose response the client has taken off the wire
    late,         \* requests whose wait timed out before the response was sent
    \* message classification (mcp.Message)
    probe,        \* a Message and what its predicates returned for it
    \* life cycle of a stdioConnection
    stopCh,       \* stdioConnection.stopCh: "open" or "closed"
    stopCloses,   \* close(c.stopCh) statements executed
    readLoops,    \* readLoop goroutines that have not returned
    respLoops,    \* responseLoop goroutines that have not returned
    starts,       \* Start calls made
    lifeLast,     \* the last Start or Stop call and what it did
    \* the servers step by step
    hpc,          \* per connection: position within one round of its loop
    cur,          \* per connection: the request its handler is working on
    pend,         \* per connection: the response its handler returned
    muReaders,    \* BaseServer.mu: connections holding RLock
    muWriter,     \* BaseServer.mu: the connection holding Lock (0: none)
    muWaiting,    \* BaseServer.mu: connections blocked in Lock
    seqIn,        \* per connection: messages read so far
    att,          \* per connection: the writes made, each by the number of
                  \* the request it answers
    \* WebSocketServer.Stop against upgrades in progress
    stopPc,       \* position of the one Stop call: "idle", "cleared", "returned"
    \* construction and (de)serialization of one Message
    codec,        \* the helper called, the Message built and its round trip
    \* a stdioConnection statement by statement
    sendPc,       \* the one SendMessage call in progress and its position
    wrote,        \* the messages written to c.writer, in order
    readPc,       \* position of the readLoop goroutine and the line it holds
    lateStored,   \* a line read after Stop has been put into the table
    waiters,      \* per concurrent WaitForResponse call: position and result
    \* construction of a server (cmd/server)
    startup,      \* position of createServer, the server's tool table, the
                  \* last tools/list result
    \* tools.DatabaseTools
    aliasMap,     \* DatabaseTools.aliasMap: alias -> index into connections
    connections,  \* DatabaseTools.connections: per *sql.DB, open or closed
    dbLast,       \* the last db_connect or db_query call and what it did
    \* tools.AITools.callAIWithTimeout
    ai            \* position of the one call, the provider's answers, the
                  \* calls made and what was returned

regVars == <<groups, toolMap, regPos, execLast>>
srvVars == <<mode, initialized, clientInfo, conns, sock, loop, httpUp, stPc,
             ctxDone, stopPending, decErr, last, sess>>

cliVars == <<cKind, running, responses, responseCh, requestID, sentReqs, inbox,
             caller, waitLast, handledGens, late>>
\* State of the specifications that examine one part on its own.
lifeVars == <<stopCh, stopCloses, readLoops, respLoops, starts, lifeLast>>
concVars == <<hpc, cur, pend, muReaders, muWriter, muWaiting, seqIn, att>>
stepVars == <<sendPc, wrote, readPc, lateStored, waiters>>
dbVars == <<aliasMap, connections, dbLast>>
lateVars == <<stepVars, startup, dbVars, ai>>
restAux == <<stopPc, codec, lateVars>>
auxVars == <<probe, lifeVars, concVars, restAux>>

vars == <<regVars, srvVars, cliVars, auxVars>>

Conns == 1 .. MaxConns

(***************************************************************************)
(* Tool registry and dispatch (tools.ToolManager).                         *)
(***************************************************************************)
\* NewToolManager registers the provider groups in this order.
GroupOrder == <<"system", "network", "data", "database", "ai">>

NumGroups == Len(GroupOrder)

Range(s) == {s[i] : i \in DOMAIN s}

\* RegisterGroup as it would be if an existing entry were kept (first wins).
RegisterGroup_FirstWins(tm, provider, toolList) ==
    [n \in DOMAIN tm \cup Range(toolList) |->
        IF n \in DOMAIN tm THEN tm[n] ELSE provider]

\* One "for _, tool := range g.GetTools() { toolMap[tool.Name] = g }" loop.
RegisterGroup(tm, provider, toolList) ==
    [n \in DOMAIN tm \cup Range(toolList) |->
        IF n \in Range(toolList) THEN provider ELSE tm[n]]

\* The empty map of make(map[string]ToolExecutor).
EmptyToolMap == [n \in {} |-> "system"]

\* The map after the first k registration loops.
RECURSIVE BuildToolMap(_, _)
BuildToolMap(gs, k) ==
    IF k = 0 THEN EmptyToolMap
    ELSE RegisterGroup(BuildToolMap(gs, k - 1), GroupOrder[k], gs[k])

\* What a provider's own ExecuteTool may return: a result or an error.
ProviderOutcomes ==
    {[result |-> "content", err |-> Nil], [result |-> Nil, err |-> "provider failed"]}

\* The outcomes to consider for a message: only a tools/call reaches a provider.
OutcomesFor(m) ==
    IF m.method = "tools/call" THEN ProviderOutcomes
    ELSE {[result |-> "content", err |-> Nil]}

\* ExecuteTool as it would be if a missing name returned (nil, nil).
ExecuteTool_NotFoundIsNil(tm, name, arguments, pout) ==
    IF name \notin DOMAIN tm
    THEN [calls |-> <<>>, result |-> Nil, err |-> Nil]
    ELSE [calls |-> <<[provider |-> tm[name], name |-> name,
                       arguments |-> arguments]>>,
          result |-> pout.result, err |-> pout.err]

\* ExecuteTool as it would be if it called the provider with nil arguments.
ExecuteTool_DropsArguments(tm, name, arguments, pout) ==
    IF name \notin DOMAIN tm
    THEN [calls |-> <<>>, result |-> Nil, err |-> "tool not found"]
    ELSE [calls |-> <<[provider |-> tm[name], name |-> name,
                       arguments |-> Nil]>>,
          result |-> pout.result, err |-> pout.err]

\* ToolManager.ExecuteTool: calls is the list of provider invocations made.
ExecuteTool(tm, name, arguments, pout) ==
    IF name \notin DOMAIN tm
    THEN [calls |-> <<>>, result |-> Nil, err |-> "tool not found"]
    ELSE [calls |-> <<[provider |-> tm[name], name |-> name,
                       arguments |-> arguments]>>,
          result |-> pout.result, err |-> pout.err]

\* ToolManager.GetTools: the groups' lists, concatenated in registration order.
RECURSIVE ConcatTools(_, _)
ConcatTools(gs, k) ==
    IF k = 0 THEN <<>> ELSE ConcatTools(gs, k - 1) \o gs[k]

GetTools == ConcatTools(groups, NumGroups)

\* The groups of the running server (one tool of each provider).
DefaultGroups ==
    <<(<<"file_read">>), (<<"http_get">>), (<<"hash">>), (<<"db_query">>),
      (<<"ai_chat">>)>>

NoExec ==
    [name |-> Nil, arguments |-> Nil, pout |-> [result |-> Nil, err |-> Nil],
     ret |-> [calls |-> <<>>, result |-> Nil, err |-> Nil]]

(***************************************************************************)
(* Session core: the request handlers of the two servers.  A handler       *)
(* yields an outcome: the response it produces (nresp = 0: none), the new  *)
(* initialized flag and clientInfo, the provider invocations it made and   *)
(* whether it spawned "go s.Stop()".                                       *)
(***************************************************************************)
\* BaseServer.tools: cmd/server registers every tool of the manager.
tools == Range(GetTools)

\* BaseServer.toolExecutor is set by cmd/server before Start.
ToolExecutorSet == TRUE

NoResp ==
    [id |-> Nil, hasResult |-> FALSE, hasError |-> FALSE, code |-> 0,
     payload |-> "<none>", tools |-> {}]

\* A Message with Result set (NewResponse with a non-nil result).
ResultResp(id, payload, ts) ==
    [id |-> id, hasResult |-> TRUE, hasError |-> FALSE, code |-> 0,
     payload |-> payload, tools |-> ts]

\* A Message with Result nil and no Error (NewResponse(id, nil)).
NilResultResp(id) ==
    [id |-> id, hasResult |-> FALSE, hasError |-> FALSE, code |-> 0,
     payload |-> "<nil>", tools |-> {}]

\* A Message with Error set (NewErrorResponse).
ErrorResp(id, code) ==
    [id |-> id, hasResult |-> FALSE, hasError |-> TRUE, code |-> code,
     payload |-> "<none>", tools |-> {}]

Outcome(resp, init, info, calls, stop) ==
    [resp |-> resp, nresp |-> 1, init |-> init, info |-> info,
     calls |-> calls, stop |-> stop]

\* Nothing sent, nothing changed.
Silent ==
    [resp |-> NoResp, nresp |-> 0, init |-> initialized, info |-> clientInfo,
     calls |-> <<>>, stop |-> FALSE]

Reply(resp) == Outcome(resp, initialized, clientInfo, <<>>, FALSE)

\* json.Unmarshal(msg.Params, &map[string]interface{}) succeeds.
ParamsIsObject(m) == m.params.shape = "object"

(* ---- WebSocketServer ---- *)
WsHandleInitialize(m) ==
    IF initialized
    THEN Reply(ErrorResp(m.id, ServerErrorCode))
    ELSE Outcome(ResultResp(m.id, "initialize", {}), TRUE,
                 IF ParamsIsObject(m)
                    /\ m.params.clientInfo \notin {"<missing>", "<number>"}
                 THEN m.params.clientInfo ELSE clientInfo,
                 <<>>, FALSE)

WsHandleToolsList(m) ==
    IF ~initialized
    THEN Reply(ErrorResp(m.id, WsNotInitializedCode))
    ELSE Reply(ResultResp(m.id, "tools", tools))

WsHandleToolCall(m, pout) ==
    IF ~initialized THEN Reply(ErrorResp(m.id, WsNotInitializedCode))
    ELSE IF ~ToolExecutorSet THEN Reply(ErrorResp(m.id, InternalErrorCode))
    ELSE IF ~ParamsIsObject(m) THEN Reply(ErrorResp(m.id, InvalidParamsCode))
    ELSE IF m.params.name \in {"<missing>", "<number>"}
         THEN Reply(ErrorResp(m.id, InvalidParamsCode))
    ELSE LET r == ExecuteTool(toolMap, m.params.name, m.params.arguments, pout)
         IN  IF r.err # Nil
             THEN Outcome(ErrorResp(m.id, InternalErrorCode), initialized,
                          clientInfo, r.calls, FALSE)
             ELSE Outcome(ResultResp(m.id, r.result, {}), initialized,
                          clientInfo, r.calls, FALSE)

WsHandleResourceRead(m) ==
    IF ~initialized
    THEN Reply(ErrorResp(m.id, WsNotInitializedCode))
    ELSE Reply(ErrorResp(m.id, MethodNotFoundCode))

WsHandleShutdown(m) ==
    Outcome(NilResultResp(m.id), FALSE, clientInfo, <<>>, FALSE)

\* WebSocketServer.handleMessage, for a frame that decoded: dispatch on the
\* method alone.
WsHandleMessage(m, pout) ==
    CASE m.method = "initialize" -> WsHandleInitialize(m)
      [] m.method = "tools/list" -> WsHandleToolsList(m)
      [] m.method = "tools/call" -> WsHandleToolCall(m, pout)
      [] m.method = "resources/read" -> WsHandleResourceRead(m)
      [] m.method = "shutdown" -> WsHandleShutdown(m)
      [] OTHER -> Reply(ErrorResp(m.id, MethodNotFoundCode))

(* ---- StdioServer ---- *)
\* json.Unmarshal(msg.Params, &InitializeParams) succeeds.
InitializeParamsParse(m) ==
    ParamsIsObject(m) /\ m.params.clientInfo # "<number>"

\* json.Unmarshal(msg.Params, &ToolCallParams) succeeds.
ToolCallParamsParse(m) ==
    ParamsIsObject(m) /\ m.params.name # "<number>"

StdioHandleInitialize(m) ==
    IF initialized THEN Reply(ErrorResp(m.id, InvalidRequestCode))
    ELSE IF ~InitializeParamsParse(m)
         THEN Reply(ErrorResp(m.id, InvalidParamsCode))
    ELSE Outcome(ResultResp(m.id, "initialize", {}), TRUE,
                 IF m.params.clientInfo = "<missing>" THEN Nil
                 ELSE m.params.clientInfo,
                 <<>>, FALSE)

StdioHandleToolsList(m) ==
    IF ~initialized
    THEN Reply(ErrorResp(m.id, InvalidRequestCode))
    ELSE Reply(ResultResp(m.id, "tools", tools))

StdioHandleToolCall(m, pout) ==
    IF ~initialized THEN Reply(ErrorResp(m.id, InvalidRequestCode))
    ELSE IF ~ToolCallParamsParse(m)
         THEN Reply(ErrorResp(m.id, InvalidParamsCode))
    ELSE LET name == IF m.params.name = "<missing>" THEN "" ELSE m.params.name
         IN  IF name \notin tools
             THEN Reply(ErrorResp(m.id, MethodNotFoundCode))
             ELSE IF ToolExecutorSet
             THEN LET r == ExecuteTool(toolMap, name, m.params.arguments, pout)
                  IN  IF r.err # Nil
                      THEN Outcome(ErrorResp(m.id, InternalErrorCode),
                                   initialized, clientInfo, r.calls, FALSE)
                      ELSE Outcome(ResultResp(m.id, r.result, {}),
                                   initialized, clientInfo, r.calls, FALSE)
             ELSE Reply(ResultResp(m.id, "default", {}))

StdioHandleResourceRead(m) ==
    IF ~initialized THEN Reply(ErrorResp(m.id, InvalidRequestCode))
    ELSE IF ~ParamsIsObject(m) THEN Reply(ErrorResp(m.id, InvalidParamsCode))
    ELSE Reply(ResultResp(m.id, "resource", {}))

\* sendResponse(msg.ID, nil), then "go s.Stop()": the flag is not touched.
StdioHandleShutdown(m) ==
    Outcome(NilResultResp(m.id), initialized, clientInfo, <<>>, TRUE)

\* handleRequest as it would be if an unknown method were an invalid request.
StdioHandleRequest_UnknownIsInvalid(m, pout) ==
    CASE m.method = "initialize" -> StdioHandleInitialize(m)
      [] m.method = "tools/list" -> StdioHandleToolsList(m)
      [] m.method = "tools/call" -> StdioHandleToolCall(m, pout)
      [] m.method = "resources/read" -> StdioHandleResourceRead(m)
      [] m.method = "shutdown" -> StdioHandleShutdown(m)
      [] OTHER -> Reply(ErrorResp(m.id, InvalidRequestCode))

StdioHandleRequest(m, pout) ==
    CASE m.method = "initialize" -> StdioHandleInitialize(m)
      [] m.method = "tools/list" -> StdioHandleToolsList(m)
      [] m.method = "tools/call" -> StdioHandleToolCall(m, pout)
      [] m.method = "resources/read" -> StdioHandleResourceRead(m)
      [] m.method = "shutdown" -> StdioHandleShutdown(m)
      [] OTHER -> Reply(ErrorResp(m.id, MethodNotFoundCode))

\* StdioServer.handleMessage, for a line that decoded.
StdioHandleMessage(m, pout) ==
    IF ~Validate(m) THEN Reply(ErrorResp(m.id, ParseErrorCode))
    ELSE IF IsRequest(m) THEN StdioHandleRequest(m, pout)
    ELSE IF IsResponse(m) THEN Silent
    ELSE IF IsNotification(m) THEN Silent
    ELSE Reply(ErrorResp(m.id, InvalidRequestCode))

(***************************************************************************)
(* Values of the client side: request ids, pending-table entries.          *)
(***************************************************************************)
\* Request ids (and results) as Go values (interface{}): a string or a number
\* of some type.  A number is the integer hi * 2^53 + n: hi = 0 for the
\* integers a float64 holds exactly, hi = 1 for those from 2^53 up to 2^54.
GoString(s) == [t |-> "string", s |-> s, n |-> 0, hi |-> 0]
GoInt64(n) == [t |-> "int64", s |-> "", n |-> n, hi |-> 0]
GoFloat64(n) == [t |-> "float64", s |-> "", n |-> n, hi |-> 0]
GoNil == [t |-> "nil", s |-> "", n |-> 0, hi |-> 0]

\* The int64 2^53 + n.
GoInt64Above53(n) == [t |-> "int64", s |-> "", n |-> n, hi |-> 1]

\* The float64 nearest to hi * 2^53 + n, as its offset from hi * 2^53: from
\* 2^53 on the float64 values are the even integers, and an odd integer goes
\* to the neighbour with the even mantissa.
NearestFloat64(hi, n) ==
    IF hi = 0 \/ n % 2 = 0 THEN n
    ELSE IF ((n - 1) \div 2) % 2 = 0 THEN n - 1 ELSE n + 1

\* json.Marshal of an id, and json.Unmarshal of it into interface{}: every
\* JSON number comes back as the nearest float64.
JSONEncodeId(v) ==
    IF v.t = "string" THEN [j |-> "string", s |-> v.s, n |-> 0, hi |-> 0]
    ELSE [j |-> "number", s |-> "", n |-> v.n, hi |-> v.hi]

JSONDecodeId(tok) ==
    IF tok.j = "string" THEN GoString(tok.s)
    ELSE [t |-> "float64", s |-> "", n |-> NearestFloat64(tok.hi, tok.n),
          hi |-> tok.hi]

\* fmt.Sprintf("%v", id): the text of the value, whatever its type.
FormatV(v) == [t |-> "text", s |-> v.s, n |-> v.n, hi |-> v.hi]

\* A response as it sits in a pending table or a channel; gen tells which
\* request (by its position among the requests sent) it answers.
NoClientMsg == [id |-> GoNil, gen |-> 0, hasResult |-> FALSE, hasError |-> FALSE]

\* c.responses[id] = nil: awaiting.
Awaiting == NoClientMsg

\* newStdioConnection: make(chan *Message, 100).
ResponseChCap == 100

EmptyTable == [k \in {} |-> Awaiting]

Idle == [pc |-> "idle", op |-> "", id |-> GoNil, gen |-> 0]

\* has: the table still holds an entry for the id when the wait returns.
NoWait ==
    [id |-> GoNil, gen |-> 0, ret |-> NoClientMsg, n |-> 0, has |-> FALSE]

\* No client runs.
NoClient ==
    /\ cKind = "none"
    /\ running = FALSE
    /\ responses = EmptyTable
    /\ responseCh = <<>>
    /\ requestID = 1
    /\ sentReqs = <<>>
    /\ inbox = <<>>
    /\ caller = Idle
    /\ waitLast = NoWait
    /\ handledGens = {}
    /\ late = {}

\* No Message is being classified.
NoProbe ==
    [msg |-> Msg("none", "", Nil, "", NoParams, FALSE, FALSE),
     validate |-> "?", isRequest |-> "?", isResponse |-> "?",
     isNotification |-> "?"]

\* None of the parts examined on their own is in use.
\* No Start or Stop call has been made.
NoLifeCall ==
    [op |-> "none", err |-> FALSE, panicked |-> FALSE, preRunning |-> FALSE,
     postRunning |-> FALSE, preResponses |-> EmptyTable,
     postResponses |-> EmptyTable, preStopCh |-> "open",
     postStopCh |-> "open", spawnRead |-> 0, spawnResp |-> 0]

\* newStdioConnection: the stop channel is open, no loop runs.
NoLife ==
    /\ stopCh = "open"
    /\ stopCloses = 0
    /\ readLoops = 0
    /\ respLoops = 0
    /\ starts = 0
    /\ lifeLast = NoLifeCall

\* stdioConnection.Start as a function of the running flag and the table.
StartOutcome_NoGuard(run, tab) ==
    [err |-> FALSE, running |-> TRUE, responses |-> tab,
     spawnRead |-> 1, spawnResp |-> 1]

StartOutcome(run, tab) ==
    IF run
    THEN [err |-> TRUE, running |-> run, responses |-> tab,
          spawnRead |-> 0, spawnResp |-> 0]
    ELSE [err |-> FALSE, running |-> TRUE, responses |-> tab,
          spawnRead |-> 1, spawnResp |-> 1]

\* stdioConnection.Stop as a function of the running flag and the channel.
StopOutcome(run, ch) ==
    IF ~run
    THEN [running |-> run, stopCh |-> ch, closes |-> 0, panics |-> FALSE]
    ELSE [running |-> FALSE, stopCh |-> "closed", closes |-> 1,
          panics |-> (ch = "closed")]

\* No handler has returned a response that waits to be written.
NoPend == [resp |-> NoResp, nresp |-> 0, stop |-> FALSE]

\* No connection is followed step by step.
NoConc ==
    /\ hpc = [c \in Conns |-> "none"]
    /\ cur = [c \in Conns |-> Msg("none", "", Nil, "", NoParams, FALSE, FALSE)]
    /\ pend = [c \in Conns |-> NoPend]
    /\ muReaders = {}
    /\ muWriter = 0
    /\ muWaiting = {}
    /\ seqIn = [c \in Conns |-> 0]
    /\ att = [c \in Conns |-> <<>>]

\* Stop has not been called; no Message is being built.
NoCodec == [pc |-> "none"]

\* The concurrent WaitForResponse calls followed.
Waiters == {1, 2}

NoSend ==
    [pc |-> "idle", gen |-> 0, isRequest |-> FALSE, id |-> GoNil,
     registered |-> FALSE]

NoRead == [pc |-> "none", msg |-> NoClientMsg, afterStop |-> FALSE]

NoWaiter == [pc |-> "none", gen |-> 0, id |-> GoNil, ret |-> NoClientMsg]

\* No stdioConnection is followed statement by statement.
NoStep ==
    /\ sendPc = NoSend
    /\ wrote = <<>>
    /\ readPc = NoRead
    /\ lateStored = FALSE
    /\ waiters = [w \in Waiters |-> NoWaiter]

NoStartup == [pc |-> "none"]

NoDBCall == [op |-> "none"]

\* NewDatabaseTools: no alias, no connection.
NoDB ==
    /\ aliasMap = [a \in {} |-> 0]
    /\ connections = <<>>
    /\ dbLast = NoDBCall

NoAI == [pc |-> "none"]

NoLate ==
    /\ NoStep
    /\ startup = NoStartup
    /\ NoDB
    /\ ai = NoAI

NoRest ==
    /\ stopPc = "idle"
    /\ codec = NoCodec
    /\ NoLate

NoAux ==
    /\ probe = NoProbe
    /\ NoLife
    /\ NoConc
    /\ NoRest

(***************************************************************************)
(* The running server (cmd/server): one of the two transports, chosen by   *)
(* the -mode flag, over the registry NewToolManager built.                 *)
(***************************************************************************)
NoMsg == Msg("none", "", Nil, "", NoParams, FALSE, FALSE)

NoLast ==
    [conn |-> 0, msg |-> NoMsg, wok |-> TRUE,
     preInit |-> FALSE, preInfo |-> Nil, preSess |-> "fresh",
     postInit |-> FALSE, postInfo |-> Nil,
     resp |-> NoResp, nresp |-> 0, calls |-> <<>>, alive |-> TRUE]

\* What the peer of a connection has seen of its own session so far: "fresh"
\* until an initialize of its own is answered with a result, then "inited",
\* and "shut" once a shutdown of its own was answered after that; the session
\* of a connection whose loop has ended is "gone".
SessAfter(s, m, o) ==
    IF m.method = "initialize" /\ o.nresp = 1 /\ o.resp.hasResult
    THEN "inited"
    ELSE IF m.method = "shutdown" /\ o.nresp = 1 /\ ~o.resp.hasError
            /\ s = "inited"
    THEN "shut"
    ELSE s

Handled(c, m, wok, o, alive) ==
    [conn |-> c, msg |-> m, wok |-> wok,
     preInit |-> initialized, preInfo |-> clientInfo, preSess |-> sess[c],
     postInit |-> o.init, postInfo |-> o.info,
     resp |-> o.resp, nresp |-> o.nresp, calls |-> o.calls, alive |-> alive]

InitRegistryBuilt ==
    /\ groups = DefaultGroups
    /\ toolMap = BuildToolMap(DefaultGroups, NumGroups)
    /\ regPos = NumGroups
    /\ execLast = NoExec

\* A server of either transport, constructed and started.
ServerStarted ==
    /\ mode \in {"stdio", "websocket"}
    /\ initialized = FALSE
    /\ clientInfo = Nil
    /\ conns = {}
    /\ sock = [c \in Conns |-> "none"]
    /\ loop = [c \in Conns |-> "none"]
    /\ httpUp = (mode = "websocket")
    /\ stPc = IF mode = "stdio" THEN "select" ELSE "none"
    /\ ctxDone = FALSE
    /\ stopPending = FALSE
    /\ decErr = FALSE
    /\ last = NoLast
    /\ sess = [c \in Conns |-> "fresh"]

Init ==
    /\ InitRegistryBuilt
    /\ NoClient
    /\ NoAux
    /\ ServerStarted

stdioVars == <<stPc, ctxDone, stopPending, decErr>>
wsVars == <<conns, sock, loop, httpUp>>

\* handleWebSocket: upgrade, register the connection, start its loop.
\* Connections are numbered in the order they are accepted.
WsUpgrade(c) ==
    /\ mode = "websocket" /\ httpUp
    /\ sock[c] = "none"
    /\ \A d \in Conns : d < c => sock[d] # "none"
    /\ sock' = [sock EXCEPT ![c] = "open"]
    /\ conns' = conns \cup {c}
    /\ loop' = [loop EXCEPT ![c] = "read"]
    /\ UNCHANGED <<regVars, cliVars, auxVars, mode, initialized, clientInfo, httpUp, stdioVars,
                   last, sess>>

\* The deferred cleanup of handleConnection.
WsCleanup(c) ==
    /\ conns' = conns \ {c}
    /\ sock' = [sock EXCEPT ![c] = "closed"]
    /\ loop' = [loop EXCEPT ![c] = "exited"]

\* One round of handleConnection's loop: a frame is read, handled and the
\* response written (wok: the write succeeds).
WsHandle(c, m, pout, wok) ==
    /\ mode = "websocket"
    /\ loop[c] = "read" /\ sock[c] = "open"
    /\ LET o == IF m.wire # "ok"
                THEN Reply(ErrorResp(Nil, InternalErrorCode))
                ELSE WsHandleMessage(m, pout)
           alive == m.wire # "ok" \/ wok
       IN  /\ initialized' = o.init
           /\ clientInfo' = o.info
           /\ IF alive THEN UNCHANGED <<conns, sock, loop>> ELSE WsCleanup(c)
           /\ last' = Handled(c, m, wok, o, alive)
           /\ sess' = [sess EXCEPT ![c] = IF alive THEN SessAfter(sess[c], m, o)
                                          ELSE "gone"]
    /\ UNCHANGED <<regVars, cliVars, auxVars, mode, httpUp, stdioVars>>

\* ReadMessage fails (the peer went away, or the socket was closed).
WsReadError(c) ==
    /\ mode = "websocket"
    /\ loop[c] = "read"
    /\ WsCleanup(c)
    /\ sess' = [sess EXCEPT ![c] = "gone"]
    /\ UNCHANGED <<regVars, cliVars, auxVars, mode, initialized, clientInfo, httpUp, stdioVars,
                   last>>

\* WebSocketServer.Stop.
WsStop ==
    /\ mode = "websocket" /\ httpUp
    /\ sock' = [c \in Conns |-> IF c \in conns THEN "closed" ELSE sock[c]]
    /\ conns' = {}
    /\ httpUp' = FALSE
    /\ UNCHANGED <<regVars, cliVars, auxVars, mode, initialized, clientInfo, loop, stdioVars,
                   last, sess>>

\* handleMessages: the select at the top of the loop.
StdioSelect ==
    /\ mode = "stdio" /\ stPc = "select"
    /\ stPc' = IF ctxDone THEN "exited" ELSE "decode"
    /\ UNCHANGED <<regVars, cliVars, auxVars, mode, initialized, clientInfo, wsVars, ctxDone,
                   stopPending, decErr, last, sess>>

\* handleMessages: a line is decoded and handled (wok: the write succeeds).
StdioHandle(m, pout, wok) ==
    /\ mode = "stdio" /\ stPc = "decode" /\ ~decErr
    /\ stPc' = "select"
    /\ IF m.wire # "ok"
       THEN /\ decErr' = (m.wire = "syntax")
            /\ UNCHANGED <<initialized, clientInfo, stopPending, last, sess>>
       ELSE LET o == StdioHandleMessage(m, pout)
            IN  /\ initialized' = o.init
                /\ clientInfo' = o.info
                /\ stopPending' = (stopPending \/ (o.stop /\ wok))
                /\ last' = Handled(1, m, wok, o, TRUE)
                /\ sess' = [sess EXCEPT ![1] = SessAfter(sess[1], m, o)]
                /\ UNCHANGED decErr
    /\ UNCHANGED <<regVars, cliVars, auxVars, mode, wsVars, ctxDone>>

\* Decode on a decoder that holds an error returns it again: "continue".
StdioDecodeStuck ==
    /\ mode = "stdio" /\ stPc = "decode" /\ decErr
    /\ stPc' = "select"
    /\ UNCHANGED <<regVars, cliVars, auxVars, mode, initialized, clientInfo, wsVars, ctxDone,
                   stopPending, decErr, last, sess>>

\* Decode returns io.EOF.
StdioEOF ==
    /\ mode = "stdio" /\ stPc = "decode" /\ ~decErr
    /\ stPc' = "exited"
    /\ UNCHANGED <<regVars, cliVars, auxVars, mode, initialized, clientInfo, wsVars, ctxDone,
                   stopPending, decErr, last, sess>>

\* The goroutine of "go s.Stop()" runs: StdioServer.Stop cancels the context.
StdioStopRun ==
    /\ mode = "stdio" /\ stopPending
    /\ ctxDone' = TRUE
    /\ stopPending' = FALSE
    /\ UNCHANGED <<regVars, cliVars, auxVars, mode, initialized, clientInfo, wsVars, stPc,
                   decErr, last, sess>>

\* main calls server.Stop() on an interrupt.
StdioStop ==
    /\ mode = "stdio" /\ ~ctxDone
    /\ ctxDone' = TRUE
    /\ UNCHANGED <<regVars, cliVars, auxVars, mode, initialized, clientInfo, wsVars, stPc,
                   stopPending, decErr, last, sess>>

Next ==
    \/ \E c \in Conns : WsUpgrade(c)
    \/ \E c \in Conns, m \in InputMessages, wok \in BOOLEAN :
          \E pout \in OutcomesFor(m) : WsHandle(c, m, pout, wok)
    \/ \E c \in Conns : WsReadError(c)
    \/ WsStop
    \/ StdioSelect
    \/ \E m \in InputMessages, wok \in BOOLEAN :
          \E pout \in OutcomesFor(m) : StdioHandle(m, pout, wok)
    \/ StdioDecodeStuck
    \/ StdioEOF
    \/ StdioStopRun
    \/ StdioStop

Spec == Init /\ [][Next]_vars

(***************************************************************************)
(* Session state machine: claims C1 to C7.  They are stated over last, the *)
(* record of the message a server handled last.                            *)
(***************************************************************************)
LastIsRequest(method) == last.msg \in Requests /\ last.msg.method = method

\* The connection of the last message is the only session of the server.
OnlySession == \A d \in Conns \ {last.conn} : sock[d] = "none"

StateUnchanged == last.postInit = last.preInit /\ last.postInfo = last.preInfo

IsErrorWith(resp, code) == resp.hasError /\ ~resp.hasResult /\ resp.code = code

\* C1: on both transports, a tools/list, tools/call or resources/read request
\* handled while the session is uninitialized is answered with an
\* invalid-request (-32600) error, invokes no tool and changes no state.
C1_UninitializedIsInvalidRequest ==
    (\E me \in {"tools/list", "tools/call", "resources/read"} : LastIsRequest(me))
    /\ ~last.preInit
    => /\ last.nresp = 1
       /\ IsErrorWith(last.resp, InvalidRequestCode)
       /\ last.calls = <<>>
       /\ StateUnchanged

\* C2: on one session, a tools/list after a successful initialize and before
\* any shutdown gets a success response, and a tools/list after a shutdown
\* (with no later initialize) gets an invalid-request error.
C2_ToolsListFollowsSession ==
    LastIsRequest("tools/list") /\ OnlySession
    => /\ last.preSess = "inited" => last.nresp = 1 /\ last.resp.hasResult
       /\ last.preSess = "shut" =>
              last.nresp = 1 /\ IsErrorWith(last.resp, InvalidRequestCode)

\* C3: an initialize request handled while the session is initialized is
\* answered with an invalid-request (-32600) error and changes no state.
C3_DoubleInitializeIsInvalidRequest ==
    LastIsRequest("initialize") /\ last.preInit
    => /\ last.nresp = 1
       /\ IsErrorWith(last.resp, InvalidRequestCode)
       /\ StateUnchanged

\* C4: on both transports, an initialize request that follows initialize
\* (success), shutdown on the same session is processed and succeeds, and
\* initialized is true again.
C4_SessionReusable ==
    LastIsRequest("initialize") /\ OnlySession /\ last.preSess = "shut"
    /\ last.msg.params = ObjParams("<missing>", "t")
    => /\ last.nresp = 1 /\ last.resp.hasResult
       /\ last.postInit

\* C5: a shutdown request succeeds in every session state: a response with no
\* error carrying the request's id, and initialized is false afterwards.
C5_ShutdownResetsSession ==
    LastIsRequest("shutdown")
    => /\ last.nresp = 1
       /\ ~last.resp.hasError
       /\ last.resp.id = last.msg.id
       /\ ~last.postInit

\* C6: WebSocket session state is per connection: a connection's first
\* initialize succeeds whatever the other connections did, and after its own
\* initialize (and before its own shutdown) its tools/list returns the full
\* tool set and its tools/call reaches the tool.
C6_SessionPerConnection ==
    mode = "websocket"
    => /\ LastIsRequest("initialize") /\ last.preSess = "fresh"
          => last.resp.hasResult /\ last.postInit
       /\ LastIsRequest("tools/list") /\ last.preSess = "inited"
          => last.resp.hasResult /\ last.resp.tools = tools
       /\ LastIsRequest("tools/call") /\ last.preSess = "inited"
          /\ last.msg.params.name = KnownTool
          => Len(last.calls) = 1

\* The last message is a tools/call naming a tool that no provider registered.
LastCallsUnknownTool ==
    /\ LastIsRequest("tools/call")
    /\ last.msg.params.shape = "object"
    /\ last.msg.params.name \notin {"<missing>", "<number>"}
    /\ last.msg.params.name \notin DOMAIN toolMap

\* C7: a tools/call on an initialized session naming a tool no provider
\* registered produces exactly one response, for that request id, with
\* error.code method-not-found (-32601) or internal-error (-32603) and no
\* result, and the connection loop goes on (unless the write itself failed).
C7_UnknownToolIsError ==
    LastCallsUnknownTool /\ last.preInit
    => /\ last.nresp = 1
       /\ last.resp.id = last.msg.id
       /\ \/ IsErrorWith(last.resp, MethodNotFoundCode)
          \/ IsErrorWith(last.resp, InternalErrorCode)
       /\ last.calls = <<>>
       /\ last.wok => last.alive

\* C7's case on the WebSocket server: the error was written and the loop of
\* that connection is back at its read.
C7_Witness ==
    /\ mode = "websocket"
    /\ LastCallsUnknownTool /\ last.preInit /\ last.wok
    /\ IsErrorWith(last.resp, InternalErrorCode)
    /\ loop[last.conn] = "read"

(***************************************************************************)
(* The registry on its own: NewToolManager's registration loops over       *)
(* provider groups whose tool lists are drawn from a small set of names,   *)
(* then ExecuteTool calls on the finished manager.                         *)
(***************************************************************************)
\* Longest tool list of a provider group.
MaxGroupTools == 1

RegNames == {"x", "y"}
\* Names asked of ExecuteTool: the registrable ones and one nobody lists.
QueryNames == RegNames \cup {"z"}
ArgumentSets == {"{}", "{a:1}"}

ToolLists == UNION {[1 .. n -> RegNames] : n \in 0 .. MaxGroupTools}

\* No server runs while the registry is examined on its own.
NoServer ==
    /\ mode = "none"
    /\ initialized = FALSE
    /\ clientInfo = Nil
    /\ conns = {}
    /\ sock = [c \in Conns |-> "none"]
    /\ loop = [c \in Conns |-> "none"]
    /\ httpUp = FALSE
    /\ stPc = "none"
    /\ ctxDone = FALSE
    /\ stopPending = FALSE
    /\ decErr = FALSE
    /\ last = NoLast
    /\ sess = [c \in Conns |-> "fresh"]

InitRegistry ==
    /\ groups \in [1 .. NumGroups -> ToolLists]
    /\ toolMap = EmptyToolMap
    /\ regPos = 0
    /\ execLast = NoExec
    /\ NoServer
    /\ NoClient
    /\ NoAux

\* NewToolManager: the registration loop of the next provider group.
NewToolManagerStep ==
    /\ regPos < NumGroups
    /\ toolMap' = RegisterGroup(toolMap, GroupOrder[regPos + 1], groups[regPos + 1])
    /\ regPos' = regPos + 1
    /\ UNCHANGED <<groups, execLast, srvVars, cliVars, auxVars>>

\* A caller runs tm.ExecuteTool(ctx, name, arguments) on the built manager;
\* pout is what the provider returns if it is reached.
CallExecuteTool(name, arguments, pout) ==
    /\ regPos = NumGroups
    /\ execLast' = [name |-> name, arguments |-> arguments, pout |-> pout,
                    ret |-> ExecuteTool(toolMap, name, arguments, pout)]
    /\ UNCHANGED <<groups, toolMap, regPos, srvVars, cliVars, auxVars>>

NextRegistry ==
    \/ NewToolManagerStep
    \/ \E name \in QueryNames, arguments \in ArgumentSets,
          pout \in ProviderOutcomes : CallExecuteTool(name, arguments, pout)

SpecRegistry == InitRegistry /\ [][NextRegistry]_vars

\* The groups (by position in the registration order) that list tool n.
Listing(n) == {k \in 1 .. NumGroups : n \in Range(groups[k])}

SetMax(S) == CHOOSE k \in S : \A j \in S : j <= k

\* C8: after construction each tool name maps to exactly one provider, the
\* group registered last among those that list it, and ExecuteTool for the
\* name invokes only that provider.
C8_LastRegisteredWins ==
    regPos = NumGroups
    => \A n \in QueryNames :
          /\ n \in DOMAIN toolMap <=> Listing(n) # {}
          /\ Listing(n) # {} =>
                /\ toolMap[n] = GroupOrder[SetMax(Listing(n))]
                /\ execLast.name = n =>
                      /\ Len(execLast.ret.calls) = 1
                      /\ execLast.ret.calls[1].provider
                            = GroupOrder[SetMax(Listing(n))]

\* C8's case: a name listed by two groups has been looked up and executed.
C8_Witness ==
    /\ regPos = NumGroups
    /\ Cardinality(Listing(execLast.name)) >= 2
    /\ Len(execLast.ret.calls) = 1

\* C9: ExecuteTool on a name that is no key of the registry returns a "tool
\* not found" error and invokes no provider; otherwise it invokes exactly the
\* provider the registry maps the name to, once, with the same name and
\* arguments, and returns that provider's result and error unchanged.
C9_ExecuteToolForwards ==
    execLast.name # Nil
    => IF execLast.name \notin DOMAIN toolMap
       THEN /\ execLast.ret.err = "tool not found"
            /\ execLast.ret.result = Nil
            /\ execLast.ret.calls = <<>>
       ELSE /\ execLast.ret.calls
                 = <<[provider |-> toolMap[execLast.name],
                      name |-> execLast.name,
                      arguments |-> execLast.arguments]>>
            /\ execLast.ret.result = execLast.pout.result
            /\ execLast.ret.err = execLast.pout.err

\* C9's case: a registered tool was executed and its provider failed.
C9_Witness ==
    /\ execLast.name \in DOMAIN toolMap
    /\ execLast.pout.err # Nil
    /\ execLast.ret.err = execLast.pout.err
    /\ Len(execLast.ret.calls) = 1

(***************************************************************************)
(* Client-side request/response correlation: mcp.stdioConnection as        *)
(* mcp.StdioClient drives it, and the console client ImprovedMCPClient.    *)
(***************************************************************************)
\* Requests one client sends in a run.
MaxRequests == 3

\* The operations of a client and whether they wait for the response.
\* StdioClient: Initialize and Shutdown only send.
ClientOps ==
    IF cKind = "stdio" THEN {"Initialize", "ListTools"}
    ELSE {"Initialize", "ListTools", "CallTool"}

OpWaits(op) == ~(cKind = "stdio" /\ op \in {"Initialize", "Shutdown"})

\* The id an operation gives its request.
RequestIdOf(op) ==
    IF cKind = "stdio"
    THEN CASE op = "Initialize" -> GoString("init-1")
           [] op = "Shutdown" -> GoString("shutdown-1")
           [] OTHER -> GoString("tools-1")
    ELSE GoInt64(requestID)

\* The key WaitForResponse and the message handlers look an id up under.
TableKey(v) == IF cKind = "console" THEN FormatV(v) ELSE v

\* The table with key k set to v (added if absent).
TablePut(tab, k, v) ==
    [x \in DOMAIN tab \cup {k} |-> IF x = k THEN v ELSE tab[x]]

TableDelete(tab, k) == [x \in DOMAIN tab \ {k} |-> tab[x]]

\* handleResponse as it would be if a response went to whichever entry is
\* awaiting, in arrival order, whatever its id.
HandleResponse_ByArrival(tab, msg) ==
    IF (msg.hasResult \/ msg.hasError) /\ msg.id # GoNil
    THEN IF \E k \in DOMAIN tab : tab[k] = Awaiting
         THEN TablePut(tab, CHOOSE k \in DOMAIN tab : tab[k] = Awaiting, msg)
         ELSE tab
    ELSE tab

\* stdioConnection.handleResponse.
HandleResponse(tab, msg) ==
    IF (msg.hasResult \/ msg.hasError) /\ msg.id # GoNil
    THEN IF msg.id \in DOMAIN tab THEN TablePut(tab, msg.id, msg) ELSE tab
    ELSE tab

\* ImprovedMCPClient.processMCPMessage.
ProcessMCPMessage(tab, msg) ==
    IF (msg.hasResult \/ msg.hasError) /\ msg.id # GoNil
    THEN TablePut(tab, FormatV(msg.id), msg)
    ELSE tab

\* One check of WaitForResponse's polling loop finds a response.
WaitFinds(tab, id) ==
    TableKey(id) \in DOMAIN tab /\ tab[TableKey(id)] # Awaiting

InitClient ==
    /\ InitRegistryBuilt
    /\ NoServer
    /\ NoAux
    /\ cKind \in {"stdio", "console"}
    /\ running = TRUE
    /\ responses = EmptyTable
    /\ responseCh = <<>>
    /\ requestID = 1
    /\ sentReqs = <<>>
    /\ inbox = <<>>
    /\ caller = Idle
    /\ waitLast = NoWait
    /\ handledGens = {}
    /\ late = {}

\* A client operation builds its request and writes it to the server
\* (SendMessage up to the Write; generateRequestID and SendMCPMessage).
ClientSend(op) ==
    /\ cKind # "none" /\ running
    /\ caller.pc = "idle"
    /\ Len(sentReqs) < MaxRequests
    /\ LET id == RequestIdOf(op)
       IN  /\ sentReqs' = Append(sentReqs, [id |-> id, answered |-> FALSE])
           /\ caller' = [pc |-> IF cKind = "stdio" THEN "written"
                                ELSE "waiting",
                         op |-> op, id |-> id, gen |-> Len(sentReqs) + 1]
    /\ requestID' = IF cKind = "console" THEN requestID + 1 ELSE requestID
    /\ UNCHANGED <<cKind, running, responses, responseCh, inbox, waitLast,
                   handledGens, late, regVars, srvVars, auxVars>>

\* stdioConnection.SendMessage after the Write: the awaiting entry.
SendRegister ==
    /\ cKind = "stdio" /\ caller.pc = "written"
    /\ responses' = TablePut(responses, caller.id, Awaiting)
    /\ caller' = IF OpWaits(caller.op) THEN [caller EXCEPT !.pc = "waiting"]
                 ELSE Idle
    /\ UNCHANGED <<cKind, running, responseCh, requestID, sentReqs, inbox,
                   waitLast, handledGens, late, regVars, srvVars, auxVars>>

\* The server answers request g: its response, carrying the id as the JSON
\* it was sent as, is on the wire.
PeerRespond(g) ==
    /\ cKind # "none"
    /\ g \in DOMAIN sentReqs /\ ~sentReqs[g].answered
    /\ sentReqs' = [sentReqs EXCEPT ![g].answered = TRUE]
    /\ inbox' = Append(inbox, [id |-> JSONEncodeId(sentReqs[g].id), gen |-> g])
    /\ UNCHANGED <<cKind, running, responses, responseCh, requestID, caller,
                   waitLast, handledGens, late, regVars, srvVars, auxVars>>

\* The message the reader parses from the line at the head of inbox.
ParsedHead ==
    [id |-> JSONDecodeId(Head(inbox).id), gen |-> Head(inbox).gen,
     hasResult |-> TRUE, hasError |-> FALSE]

\* readLoop as it would be if it sent on the channel without a default case:
\* it waits while the channel is full.
ReadLoop_Blocking ==
    /\ cKind = "stdio" /\ running
    /\ inbox # <<>>
    /\ Len(responseCh) < ResponseChCap
    /\ inbox' = Tail(inbox)
    /\ responseCh' = Append(responseCh, ParsedHead)
    /\ UNCHANGED <<cKind, running, responses, requestID, sentReqs, caller,
                   waitLast, handledGens, late, regVars, srvVars, auxVars>>

\* stdioConnection.readLoop: a line is scanned, parsed and offered to the
\* channel; it is dropped if the channel is full.
ReadLoop ==
    /\ cKind = "stdio" /\ running
    /\ inbox # <<>>
    /\ inbox' = Tail(inbox)
    /\ responseCh' = IF Len(responseCh) < ResponseChCap
                     THEN Append(responseCh, ParsedHead) ELSE responseCh
    /\ handledGens' = IF Len(responseCh) < ResponseChCap THEN handledGens
                      ELSE handledGens \cup {ParsedHead.gen}
    /\ UNCHANGED <<cKind, running, responses, requestID, sentReqs, caller,
                   waitLast, late, regVars, srvVars, auxVars>>

\* stdioConnection.responseLoop: a message is taken off the channel.
ResponseLoop ==
    /\ cKind = "stdio" /\ running
    /\ responseCh # <<>>
    /\ responseCh' = Tail(responseCh)
    /\ responses' = HandleResponse(responses, Head(responseCh))
    /\ handledGens' = handledGens \cup {Head(responseCh).gen}
    /\ UNCHANGED <<cKind, running, requestID, sentReqs, inbox, caller,
                   waitLast, late, regVars, srvVars, auxVars>>

\* ImprovedMCPClient.handleMCPMessages: a line is scanned and processed.
HandleMCPMessages ==
    /\ cKind = "console" /\ running
    /\ inbox # <<>>
    /\ inbox' = Tail(inbox)
    /\ responses' = ProcessMCPMessage(responses, ParsedHead)
    /\ handledGens' = handledGens \cup {ParsedHead.gen}
    /\ UNCHANGED <<cKind, running, responseCh, requestID, sentReqs, caller,
                   waitLast, late, regVars, srvVars, auxVars>>

\* A caller waits once more for a request sent earlier: WaitForResponse(id,
\* timeout) called on its own, with the id of request g.
WaitAgain(g) ==
    /\ cKind # "none" /\ running
    /\ caller.pc = "idle"
    /\ g \in DOMAIN sentReqs
    /\ caller' = [pc |-> "waiting", op |-> "WaitForResponse",
                  id |-> sentReqs[g].id, gen |-> g]
    /\ UNCHANGED <<cKind, running, responses, responseCh, requestID, sentReqs,
                   inbox, waitLast, handledGens, late, regVars, srvVars, auxVars>>

\* WaitForResponse: a check finds the response, removes and returns it.
WaitReturn ==
    /\ caller.pc = "waiting"
    /\ WaitFinds(responses, caller.id)
    /\ waitLast' = [id |-> caller.id, gen |-> caller.gen,
                    ret |-> responses[TableKey(caller.id)],
                    n |-> caller.gen,
                    has |-> TableKey(caller.id) \in
                              DOMAIN TableDelete(responses, TableKey(caller.id))]
    /\ responses' = TableDelete(responses, TableKey(caller.id))
    /\ caller' = Idle
    /\ UNCHANGED <<cKind, running, responseCh, requestID, sentReqs, inbox,
                   handledGens, late, regVars, srvVars, auxVars>>

\* WaitForResponse: the timeout elapses; nil is returned, the table is left
\* as it is.
WaitTimeout ==
    /\ caller.pc = "waiting"
    /\ waitLast' = [id |-> caller.id, gen |-> caller.gen, ret |-> NoClientMsg,
                    n |-> caller.gen,
                    has |-> TableKey(caller.id) \in DOMAIN responses]
    /\ late' = IF sentReqs[caller.gen].answered THEN late
               ELSE late \cup {caller.gen}
    /\ caller' = Idle
    /\ UNCHANGED <<cKind, running, responses, responseCh, requestID, sentReqs,
                   inbox, handledGens, regVars, srvVars, auxVars>>

NextClient ==
    \/ \E op \in ClientOps : ClientSend(op)
    \/ SendRegister
    \/ \E g \in 1 .. MaxRequests : PeerRespond(g)
    \/ ReadLoop
    \/ ResponseLoop
    \/ HandleMCPMessages
    \/ \E g \in 1 .. MaxRequests : WaitAgain(g)
    \/ WaitReturn
    \/ WaitTimeout

SpecClient == InitClient /\ [][NextClient]_vars

\* C10: once WaitForResponse has returned nil for a request and that
\* request's response arrives afterwards (it was not even sent when the wait
\* timed out), no later WaitForResponse returns that response.
C10_LateResponseNeverReturned ==
    waitLast.ret # NoClientMsg => waitLast.ret.gen \notin late

(***************************************************************************)
(* Correlation by id: claims C11 to C13.                                   *)
(***************************************************************************)
\* Request g is the only request sent so far that carries its id.
OnlyUseOfId(g) ==
    \A h \in DOMAIN sentReqs : h # g => sentReqs[h].id # sentReqs[g].id

\* C11: on a stdioConnection the awaiting entry of a request exists in the
\* pending table before a response to that request can be handled by the
\* dispatch loop: every response queued for the dispatch loop finds the entry
\* of its request (taken over requests whose id was used once, so that no
\* other request's wait can have removed the entry).
C11_AwaitingBeforeResponse ==
    cKind = "stdio"
    => \A i \in DOMAIN responseCh :
          OnlyUseOfId(responseCh[i].gen)
          => responseCh[i].id \in DOMAIN responses

\* Two ids are the same on the wire.
SameWireId(a, b) == JSONEncodeId(a) = JSONEncodeId(b)

\* C12: responses are correlated by id only: whatever order the responses
\* arrive in, the response a WaitForResponse(id) returns carries that id.
C12_CorrelatedByIdOnly ==
    waitLast.ret # NoClientMsg => SameWireId(waitLast.ret.id, waitLast.id)

\* C12's case: two requests with different ids, the later one answered and
\* its response returned to its wait while the earlier one is still
\* unanswered.
C12_Witness ==
    /\ Len(sentReqs) >= 2
    /\ ~SameWireId(sentReqs[1].id, sentReqs[2].id)
    /\ ~sentReqs[1].answered
    /\ waitLast.gen = 2 /\ waitLast.ret.gen = 2
    /\ SameWireId(waitLast.ret.id, sentReqs[2].id)

\* C13: over the lifetime of one client no two requests are sent with the
\* same id.
C13_RequestIdsFresh ==
    \A g, h \in DOMAIN sentReqs : g # h => sentReqs[g].id # sentReqs[h].id

(***************************************************************************)
(* Message classification on its own: Validate and the three predicates    *)
(* applied to every shape of Message.                                      *)
(***************************************************************************)
\* Every combination of jsonrpc, id, method, result and error.
ProbedMessages ==
    {Msg("ok", v, i, me, NoParams, r, e) :
        v \in {JSONRPCVersion, "1.0", ""}, i \in {Nil, "1"},
        me \in {"", "tools/list"}, r \in BOOLEAN, e \in BOOLEAN}

\* What a Go bool, and Validate's error, read as in probe.
GoBool(b) == IF b THEN "true" ELSE "false"

\* What none of the other parts does while messages are classified.
NoOther ==
    /\ InitRegistryBuilt
    /\ NoServer
    /\ NoClient
    /\ NoLife
    /\ NoConc
    /\ NoRest

InitMessage ==
    /\ NoOther
    /\ probe \in {[NoProbe EXCEPT !.msg = m] : m \in ProbedMessages}

CallValidate ==
    /\ probe.validate = "?"
    /\ probe' = [probe EXCEPT !.validate =
                    IF Validate(probe.msg) THEN "nil" ELSE "error"]
    /\ UNCHANGED <<regVars, srvVars, cliVars, lifeVars, concVars, restAux>>

CallIsRequest ==
    /\ probe.isRequest = "?"
    /\ probe' = [probe EXCEPT !.isRequest = GoBool(IsRequest(probe.msg))]
    /\ UNCHANGED <<regVars, srvVars, cliVars, lifeVars, concVars, restAux>>

CallIsResponse ==
    /\ probe.isResponse = "?"
    /\ probe' = [probe EXCEPT !.isResponse = GoBool(IsResponse(probe.msg))]
    /\ UNCHANGED <<regVars, srvVars, cliVars, lifeVars, concVars, restAux>>

CallIsNotification ==
    /\ probe.isNotification = "?"
    /\ probe' = [probe EXCEPT !.isNotification =
                    GoBool(IsNotification(probe.msg))]
    /\ UNCHANGED <<regVars, srvVars, cliVars, lifeVars, concVars, restAux>>

NextMessage ==
    \/ CallValidate
    \/ CallIsRequest
    \/ CallIsResponse
    \/ CallIsNotification

SpecMessage == InitMessage /\ [][NextMessage]_vars

\* The predicates that returned true for the probed message.
ProbeKinds ==
    {k \in {"isRequest", "isResponse", "isNotification"} : probe[k] = "true"}

ProbeComplete ==
    \A k \in {"validate", "isRequest", "isResponse", "isNotification"} :
        probe[k] # "?"

\* C16: for every Message that passes Validate, exactly one of IsRequest,
\* IsResponse and IsNotification is true (so all three are false only for
\* messages that fail Validate).
C16_ExactlyOneKind ==
    ProbeComplete /\ probe.validate = "nil" => Cardinality(ProbeKinds) = 1

\* C17: Validate returns an error if and only if jsonrpc differs from "2.0"
\* or none of method, result and error is set.
C17_ValidateIff ==
    probe.validate # "?"
    => (probe.validate = "error"
        <=> \/ probe.msg.jsonrpc # "2.0"
            \/ /\ probe.msg.method = ""
               /\ ~probe.msg.hasResult
               /\ ~probe.msg.hasError)

\* C17's case: a message with method and id set and the wrong version was
\* validated and refused.
C17_Witness ==
    /\ probe.msg.jsonrpc = "1.0" /\ probe.msg.method # "" /\ probe.msg.id # Nil
    /\ probe.validate = "error"

(***************************************************************************)
(* The life cycle of one stdioConnection: Start and Stop called in any     *)
(* order, requests sent in between, and the two loops Start spawns.        *)
(***************************************************************************)
\* Start calls made on one connection.
MaxStarts == 2

InitLife ==
    /\ InitRegistryBuilt
    /\ NoServer
    /\ probe = NoProbe
    /\ NoConc
    /\ NoRest
    /\ cKind = "stdio"
    /\ running = FALSE
    /\ responses = EmptyTable
    /\ responseCh = <<>>
    /\ requestID = 1
    /\ sentReqs = <<>>
    /\ inbox = <<>>
    /\ caller = Idle
    /\ waitLast = NoWait
    /\ handledGens = {}
    /\ late = {}
    /\ stopCh = "open"
    /\ stopCloses = 0
    /\ readLoops = 0
    /\ respLoops = 0
    /\ starts = 0
    /\ lifeLast = NoLifeCall

restOfClient ==
    <<cKind, responseCh, requestID, sentReqs, inbox, caller, waitLast,
      handledGens, late>>

\* The process has not died of a panic.
Alive == ~lifeLast.panicked

\* A caller runs c.Start().
ConnStart ==
    /\ cKind = "stdio" /\ Alive
    /\ starts < MaxStarts
    /\ LET o == StartOutcome(running, responses)
       IN  /\ running' = o.running
           /\ responses' = o.responses
           /\ readLoops' = readLoops + o.spawnRead
           /\ respLoops' = respLoops + o.spawnResp
           /\ lifeLast' = [op |-> "Start", err |-> o.err, panicked |-> FALSE,
                           preRunning |-> running, postRunning |-> o.running,
                           preResponses |-> responses,
                           postResponses |-> o.responses,
                           preStopCh |-> stopCh, postStopCh |-> stopCh,
                           spawnRead |-> o.spawnRead, spawnResp |-> o.spawnResp]
    /\ starts' = starts + 1
    /\ UNCHANGED <<regVars, srvVars, restOfClient, probe, concVars, restAux, stopCh, stopCloses>>

\* A caller runs c.Stop().  close of a closed channel panics.
ConnStop ==
    /\ cKind = "stdio" /\ Alive
    /\ LET o == StopOutcome(running, stopCh)
       IN  /\ running' = o.running
           /\ stopCh' = o.stopCh
           /\ stopCloses' = stopCloses + o.closes
           /\ lifeLast' = [op |-> "Stop", err |-> FALSE, panicked |-> o.panics,
                           preRunning |-> running, postRunning |-> o.running,
                           preResponses |-> responses,
                           postResponses |-> responses,
                           preStopCh |-> stopCh, postStopCh |-> o.stopCh,
                           spawnRead |-> 0, spawnResp |-> 0]
    /\ UNCHANGED <<regVars, srvVars, restOfClient, probe, concVars, restAux, responses, readLoops,
                   respLoops, starts>>

\* A client operation sends its request on the running connection
\* (SendMessage, whole).
LifeSend(op) ==
    /\ cKind = "stdio" /\ Alive
    /\ running
    /\ responses' = TablePut(responses, RequestIdOf(op), Awaiting)
    /\ UNCHANGED <<regVars, srvVars, restOfClient, probe, concVars, restAux, running, lifeVars>>

\* A readLoop finds IsRunning() false at the head of its loop and returns.
ReadLoopExit ==
    /\ cKind = "stdio" /\ Alive
    /\ readLoops > 0 /\ ~running
    /\ readLoops' = readLoops - 1
    /\ UNCHANGED <<regVars, srvVars, cliVars, probe, concVars, restAux, stopCh, stopCloses,
                   respLoops, starts, lifeLast>>

\* A responseLoop receives from the closed stopCh and returns.
ResponseLoopExit ==
    /\ cKind = "stdio" /\ Alive
    /\ respLoops > 0 /\ stopCh = "closed"
    /\ respLoops' = respLoops - 1
    /\ UNCHANGED <<regVars, srvVars, cliVars, probe, concVars, restAux, stopCh, stopCloses,
                   readLoops, starts, lifeLast>>

NextLife ==
    \/ ConnStart
    \/ ConnStop
    \/ \E op \in ClientOps : LifeSend(op)
    \/ ReadLoopExit
    \/ ResponseLoopExit

SpecLife == InitLife /\ [][NextLife]_vars

\* C18: Stop is idempotent: in any sequence of Start and Stop calls every
\* Stop returns nil without panicking, the stop signal is closed at most
\* once, and a Stop on a connection that is not running changes no state.
C18_StopIdempotent ==
    /\ stopCloses <= 1
    /\ lifeLast.op = "Stop"
       => /\ ~lifeLast.panicked
          /\ ~lifeLast.err
          /\ ~lifeLast.preRunning
             => /\ ~lifeLast.postRunning
                /\ lifeLast.postStopCh = lifeLast.preStopCh
                /\ lifeLast.postResponses = lifeLast.preResponses

\* C19: Start on a running connection returns an error, spawns no loop and
\* leaves the running flag and the pending table as they were; Start on a
\* connection that is not running sets running and spawns exactly one read
\* loop and one dispatch loop.
C19_StartOnce ==
    lifeLast.op = "Start"
    => IF lifeLast.preRunning
       THEN /\ lifeLast.err
            /\ lifeLast.spawnRead = 0 /\ lifeLast.spawnResp = 0
            /\ lifeLast.postRunning
            /\ lifeLast.postResponses = lifeLast.preResponses
       ELSE /\ ~lifeLast.err
            /\ lifeLast.spawnRead = 1 /\ lifeLast.spawnResp = 1
            /\ lifeLast.postRunning

\* C19's case: Start was called on a running connection with a pending
\* request and refused.
C19_Witness ==
    /\ lifeLast.op = "Start" /\ lifeLast.preRunning /\ lifeLast.err
    /\ lifeLast.preResponses # EmptyTable
    /\ lifeLast.postResponses = lifeLast.preResponses
    /\ readLoops = 1 /\ respLoops = 1

(***************************************************************************)
(* Malformed input on the stdio server: claim C20.                         *)
(***************************************************************************)
\* The read loop of the stdio server can decode and handle a well-formed
\* request now.
CanHandleRequest ==
    ENABLED (\E m \in Requests, wok \in BOOLEAN :
                \E pout \in OutcomesFor(m) : StdioHandle(m, pout, wok))

\* C20: malformed input is skipped on the stdio transport: whatever lines
\* came before, whenever StdioServer.handleMessages is at its Decode it can
\* still read and handle a well-formed request that follows.
C20_MalformedInputSkipped ==
    mode = "stdio" /\ stPc = "decode" => CanHandleRequest

(***************************************************************************)
(* The servers step by step: one round of a connection's loop is a read,   *)
(* the handler taking the server mutex (WebSocket: s.mu), the handler's    *)
(* body with a tool call that takes its time, and the write of the         *)
(* response.                                                               *)
(***************************************************************************)
\* Frames read from one connection.
MaxFrames == 2

\* The requests sent in these runs.
ConcRequests ==
    {Request("1", "initialize", ObjParams("<missing>", "t")),
     Request("1", "tools/list", NoParams),
     Request("1", "tools/call", ObjParams(KnownTool, "<missing>")),
     Request("1", "shutdown", NoParams)}

\* handleInitialize and handleShutdown take s.mu.Lock(), the other handlers
\* s.mu.RLock().
NeedsWriteLock(m) == m.method \in {"initialize", "shutdown"}

\* The handler of the running transport.
HandlerOutcome(m, pout) ==
    IF mode = "stdio" THEN StdioHandleMessage(m, pout)
    ELSE WsHandleMessage(m, pout)

\* The handler reaches a provider's ExecuteTool for this message.
RunsTool(m) ==
    \E pout \in ProviderOutcomes : Len(HandlerOutcome(m, pout).calls) = 1

\* The loop of a connection reads its next message only from its read
\* position: the handler and the write run inline, not in a goroutine.
ReadyToRead_Pipelined(pos) == pos \in {"read", "write"}

ReadyToRead(pos) == pos = "read"

InitConc ==
    /\ InitRegistryBuilt
    /\ NoClient
    /\ probe = NoProbe
    /\ NoLife
    /\ NoRest
    /\ ServerStarted
    /\ hpc = [c \in Conns |-> IF mode = "stdio" /\ c = 1 THEN "read" ELSE "none"]
    /\ cur = [c \in Conns |-> NoMsg]
    /\ pend = [c \in Conns |-> NoPend]
    /\ muReaders = {}
    /\ muWriter = 0
    /\ muWaiting = {}
    /\ seqIn = [c \in Conns |-> 0]
    /\ att = [c \in Conns |-> <<>>]

muVars == <<muReaders, muWriter, muWaiting>>
otherAux == <<probe, lifeVars, restAux>>

\* handleWebSocket: as WsUpgrade, the loop of the connection at its read.
ConcAccept(c) ==
    /\ mode = "websocket" /\ httpUp
    /\ sock[c] = "none"
    /\ \A d \in Conns : d < c => sock[d] # "none"
    /\ sock' = [sock EXCEPT ![c] = "open"]
    /\ conns' = conns \cup {c}
    /\ loop' = [loop EXCEPT ![c] = "read"]
    /\ hpc' = [hpc EXCEPT ![c] = "read"]
    /\ UNCHANGED <<regVars, cliVars, otherAux, mode, initialized, clientInfo,
                   httpUp, stdioVars, last, sess, cur, pend, muVars, seqIn, att>>

\* ReadMessage / Decode returns the next request and the handler is entered.
ConcRead(c, m) ==
    /\ ReadyToRead(hpc[c])
    /\ seqIn[c] < MaxFrames
    /\ IF mode = "stdio" THEN c = 1 /\ stPc = "decode"
       ELSE mode = "websocket" /\ loop[c] = "read" /\ sock[c] = "open"
    /\ cur' = [cur EXCEPT ![c] = m]
    /\ seqIn' = [seqIn EXCEPT ![c] = @ + 1]
    /\ hpc' = [hpc EXCEPT ![c] = IF mode = "stdio" THEN "held" ELSE "enter"]
    /\ UNCHANGED <<regVars, srvVars, cliVars, otherAux, pend, muVars, att>>

\* The handler calls s.mu.Lock() or s.mu.RLock(): it gets the mutex or blocks.
\* A Lock that waits keeps later RLock calls out (sync.RWMutex).
ConcLockCall(c) ==
    /\ mode = "websocket" /\ hpc[c] = "enter"
    /\ IF NeedsWriteLock(cur[c])
       THEN IF muReaders = {} /\ muWriter = 0 /\ muWaiting = {}
            THEN /\ muWriter' = c
                 /\ hpc' = [hpc EXCEPT ![c] = "held"]
                 /\ UNCHANGED <<muReaders, muWaiting>>
            ELSE /\ muWaiting' = muWaiting \cup {c}
                 /\ hpc' = [hpc EXCEPT ![c] = "lock"]
                 /\ UNCHANGED <<muReaders, muWriter>>
       ELSE IF muWriter = 0 /\ muWaiting = {}
            THEN /\ muReaders' = muReaders \cup {c}
                 /\ hpc' = [hpc EXCEPT ![c] = "held"]
                 /\ UNCHANGED <<muWriter, muWaiting>>
            ELSE /\ hpc' = [hpc EXCEPT ![c] = "rlock"]
                 /\ UNCHANGED muVars
    /\ UNCHANGED <<regVars, srvVars, cliVars, otherAux, cur, pend, seqIn, att>>

\* A blocked Lock or RLock call returns.
ConcLockGranted(c) ==
    /\ mode = "websocket"
    /\ \/ /\ hpc[c] = "lock"
          /\ muReaders = {} /\ muWriter = 0
          /\ muWriter' = c
          /\ muWaiting' = muWaiting \ {c}
          /\ UNCHANGED muReaders
       \/ /\ hpc[c] = "rlock"
          /\ muWriter = 0 /\ muWaiting = {}
          /\ muReaders' = muReaders \cup {c}
          /\ UNCHANGED <<muWriter, muWaiting>>
    /\ hpc' = [hpc EXCEPT ![c] = "held"]
    /\ UNCHANGED <<regVars, srvVars, cliVars, otherAux, cur, pend, seqIn, att>>

\* The handler returns: state written, mutex released by the deferred
\* Unlock / RUnlock, the response ready to be written.
ConcComplete(c, pout) ==
    LET o == HandlerOutcome(cur[c], pout)
    IN  /\ initialized' = o.init
        /\ clientInfo' = o.info
        /\ pend' = [pend EXCEPT ![c] = [resp |-> o.resp, nresp |-> o.nresp,
                                       stop |-> o.stop]]
        /\ muReaders' = muReaders \ {c}
        /\ muWriter' = IF muWriter = c THEN 0 ELSE muWriter
        /\ hpc' = [hpc EXCEPT ![c] = "write"]
        /\ UNCHANGED <<regVars, cliVars, otherAux, mode, wsVars, stdioVars,
                       last, sess, cur, muWaiting, seqIn, att>>

\* The handler's body up to its return, or up to the provider's ExecuteTool.
ConcHandle(c) ==
    /\ hpc[c] = "held"
    /\ IF RunsTool(cur[c])
       THEN /\ hpc' = [hpc EXCEPT ![c] = "exec"]
            /\ UNCHANGED <<regVars, srvVars, cliVars, otherAux, cur, pend,
                           muVars, seqIn, att>>
       ELSE ConcComplete(c, [result |-> "content", err |-> Nil])

\* The provider's ExecuteTool returns, whenever it does.
ConcToolReturn(c, pout) ==
    /\ hpc[c] = "exec"
    /\ ConcComplete(c, pout)

\* The response is written (wok: the write succeeds).  A failed WriteJSON
\* ends the WebSocket loop; the stdio loop goes on.
ConcWrite(c, wok) ==
    /\ hpc[c] = "write"
    /\ att' = [att EXCEPT ![c] = Append(@, seqIn[c])]
    /\ cur' = [cur EXCEPT ![c] = NoMsg]
    /\ pend' = [pend EXCEPT ![c] = NoPend]
    /\ IF mode = "stdio"
       THEN /\ hpc' = [hpc EXCEPT ![c] = "read"]
            /\ stPc' = "select"
            /\ stopPending' = (stopPending \/ (pend[c].stop /\ wok))
            /\ UNCHANGED <<wsVars, ctxDone, decErr>>
       ELSE /\ IF wok THEN /\ hpc' = [hpc EXCEPT ![c] = "read"]
                           /\ UNCHANGED <<conns, sock, loop>>
                  ELSE /\ hpc' = [hpc EXCEPT ![c] = "exited"]
                       /\ WsCleanup(c)
            /\ UNCHANGED <<httpUp, stdioVars>>
    /\ UNCHANGED <<regVars, cliVars, otherAux, mode, initialized, clientInfo,
                   last, sess, muVars, seqIn>>

\* ReadMessage fails: the loop of the connection ends.
ConcReadError(c) ==
    /\ mode = "websocket"
    /\ hpc[c] = "read" /\ loop[c] = "read"
    /\ hpc' = [hpc EXCEPT ![c] = "exited"]
    /\ WsCleanup(c)
    /\ UNCHANGED <<regVars, cliVars, otherAux, mode, initialized, clientInfo,
                   httpUp, stdioVars, last, sess, cur, pend, muVars, seqIn, att>>

NextConc ==
    \/ \E c \in Conns : ConcAccept(c)
    \/ \E c \in Conns, m \in ConcRequests : ConcRead(c, m)
    \/ \E c \in Conns : ConcLockCall(c)
    \/ \E c \in Conns : ConcLockGranted(c)
    \/ \E c \in Conns : ConcHandle(c)
    \/ \E c \in Conns, pout \in ProviderOutcomes : ConcToolReturn(c, pout)
    \/ \E c \in Conns, wok \in BOOLEAN : ConcWrite(c, wok)
    \/ \E c \in Conns : ConcReadError(c)
    \/ StdioSelect
    \/ StdioStopRun
    \/ StdioStop

SpecConc == InitConc /\ [][NextConc]_vars

\* A specification of the same steps in which every step that is enabled is
\* eventually taken, except that a tool call running on connection 1 need
\* never return (and that no peer need send, and no socket need fail).
ConcFairness ==
    /\ \A c \in Conns : WF_vars(ConcLockCall(c))
    /\ \A c \in Conns : WF_vars(ConcLockGranted(c))
    /\ \A c \in Conns : WF_vars(ConcHandle(c))
    /\ \A c \in Conns : WF_vars(\E wok \in BOOLEAN : ConcWrite(c, wok))
    /\ \A c \in Conns \ {1} :
          WF_vars(\E pout \in ProviderOutcomes : ConcToolReturn(c, pout))

SpecConcFair == SpecConc /\ ConcFairness

\* C14: within one connection requests are handled in arrival order with no
\* pipelining: the n-th write on a connection answers the n-th request read
\* from it, and when the loop is ready to read the next message every
\* request read before has had its response written (or its write has
\* failed).
C14_NoPipelining ==
    \A c \in Conns :
        /\ \A i \in DOMAIN att[c] : att[c][i] = i
        /\ Len(att[c]) \in {seqIn[c], seqIn[c] - 1}
        /\ hpc[c] = "read" => Len(att[c]) = seqIn[c]

\* C14's case: two requests were read from a connection and two responses
\* written, while another connection was in the middle of a round.
C14_Witness ==
    /\ mode = "websocket"
    /\ seqIn[1] = 2 /\ att[1] = <<1, 2>> /\ hpc[1] = "read"
    /\ hpc[2] \in {"held", "exec", "write"}

\* C15: while a tool call that never returns runs on connection 1, every
\* request read from another connection is still eventually handled and
\* answered (its round ends).
C15_OthersNotDelayed ==
    \A b \in Conns \ {1} :
        (hpc[b] = "enter") ~> (hpc[b] \in {"read", "exited"})

(***************************************************************************)
(* Error handling of the two servers: claims C21, C22 and C25, stated over *)
(* last as the session claims are.                                         *)
(***************************************************************************)
\* The methods the servers dispatch on.
KnownMethods ==
    {"initialize", "tools/list", "tools/call", "resources/read", "shutdown"}

\* C21: on both transports and in every session state, a request whose
\* method is none of initialize, tools/list, tools/call, resources/read and
\* shutdown is answered with a method-not-found (-32601) error response that
\* carries the request id, and initialized and clientInfo are unchanged.
C21_UnknownMethodNotFound ==
    last.msg \in Requests /\ last.msg.method \notin KnownMethods
    => /\ last.nresp = 1
       /\ IsErrorWith(last.resp, MethodNotFoundCode)
       /\ last.resp.id = last.msg.id
       /\ StateUnchanged

\* C21's case: the stdio server, initialized by a client that named itself,
\* has answered a request with an unknown method.
C21_Witness ==
    /\ mode = "stdio"
    /\ last.msg \in Requests /\ last.msg.method \notin KnownMethods
    /\ last.preInit /\ last.preInfo # Nil
    /\ IsErrorWith(last.resp, MethodNotFoundCode)
    /\ initialized /\ clientInfo = last.preInfo

\* The params of the last message lack a name or carry one that is no string.
LastLacksToolName == last.msg.params.name \in {"<missing>", "<number>"}

\* C22: a tools/call request on an initialized session whose params lack a
\* name, or carry a name that is not a string, is answered with an
\* invalid-params (-32602) error response and no tool is executed.
C22_MissingNameIsInvalidParams ==
    LastIsRequest("tools/call") /\ last.preInit /\ LastLacksToolName
    => /\ last.nresp = 1
       /\ IsErrorWith(last.resp, InvalidParamsCode)
       /\ last.calls = <<>>

\* C25: a message that decodes but fails Validate (jsonrpc is not "2.0", or
\* none of method, result and error is set) is never dispatched to a method
\* handler on either transport: it is answered with an error response and
\* nothing else, the session state is unchanged and the connection stays
\* open (unless the write of the answer itself failed).
C25_InvalidNeverDispatched ==
    last.msg.wire = "ok" /\ ~Validate(last.msg)
    => /\ last.nresp = 1
       /\ last.resp.hasError /\ ~last.resp.hasResult
       /\ last.calls = <<>>
       /\ StateUnchanged
       /\ last.wok => last.alive

(***************************************************************************)
(* WebSocket connections from upgrade to cleanup, against one Stop call:   *)
(* handleWebSocket upgrades, registers the connection and starts its loop  *)
(* in three steps; handleConnection's deferred cleanup removes the         *)
(* connection from the set and then closes the socket; Stop clears the set *)
(* under the lock and then shuts the HTTP server down.                     *)
(***************************************************************************)
InitShut ==
    /\ InitRegistryBuilt
    /\ NoClient
    /\ NoAux
    /\ ServerStarted
    /\ mode = "websocket"

shutRest ==
    <<regVars, cliVars, probe, lifeVars, concVars, codec, lateVars, mode,
      initialized, clientInfo, stdioVars, last, sess>>

\* The deferred cleanup keeps the connection in the set.
DeferredDelete_Kept(cs, c) == cs

\* delete(s.conns, conn) of the deferred cleanup.
DeferredDelete(cs, c) == cs \ {c}

\* handleWebSocket: s.upgrader.Upgrade returns the connection (the HTTP
\* connection is hijacked from here on).
ShutUpgrade(c) ==
    /\ mode = "websocket" /\ httpUp
    /\ sock[c] = "none"
    /\ \A d \in Conns : d < c => sock[d] # "none"
    /\ sock' = [sock EXCEPT ![c] = "open"]
    /\ loop' = [loop EXCEPT ![c] = "upgraded"]
    /\ UNCHANGED <<shutRest, conns, httpUp, stopPc>>

\* handleWebSocket: s.conns[conn] = true under connMu.
ShutRegister(c) ==
    /\ loop[c] = "upgraded"
    /\ conns' = conns \cup {c}
    /\ loop' = [loop EXCEPT ![c] = "registered"]
    /\ UNCHANGED <<shutRest, sock, httpUp, stopPc>>

\* handleWebSocket: go s.handleConnection(conn).
ShutGo(c) ==
    /\ loop[c] = "registered"
    /\ loop' = [loop EXCEPT ![c] = "read"]
    /\ UNCHANGED <<shutRest, conns, sock, httpUp, stopPc>>

\* handleConnection leaves its loop (ReadMessage failed: the peer closed, or
\* the socket was closed under it; or WriteJSON failed) and the deferred
\* function removes the connection from the set under connMu.
ShutLoopEnd(c) ==
    /\ loop[c] = "read"
    /\ conns' = DeferredDelete(conns, c)
    /\ loop' = [loop EXCEPT ![c] = "closing"]
    /\ UNCHANGED <<shutRest, sock, httpUp, stopPc>>

\* The deferred function closes the socket and handleConnection returns.
ShutClose(c) ==
    /\ loop[c] = "closing"
    /\ sock' = [sock EXCEPT ![c] = "closed"]
    /\ loop' = [loop EXCEPT ![c] = "exited"]
    /\ UNCHANGED <<shutRest, conns, httpUp, stopPc>>

\* Stop: under connMu, close every socket in the set and delete it.
ShutStopClear ==
    /\ mode = "websocket" /\ stopPc = "idle"
    /\ sock' = [c \in Conns |-> IF c \in conns THEN "closed" ELSE sock[c]]
    /\ conns' = {}
    /\ stopPc' = "cleared"
    /\ UNCHANGED <<shutRest, loop, httpUp>>

\* Stop: s.server.Shutdown returns (it closes the listener; it neither
\* closes nor waits for hijacked connections) and Stop returns.
ShutStopReturn ==
    /\ stopPc = "cleared"
    /\ httpUp' = FALSE
    /\ stopPc' = "returned"
    /\ UNCHANGED <<shutRest, conns, sock, loop>>

NextShut ==
    \/ \E c \in Conns : ShutUpgrade(c)
    \/ \E c \in Conns : ShutRegister(c)
    \/ \E c \in Conns : ShutGo(c)
    \/ \E c \in Conns : ShutLoopEnd(c)
    \/ \E c \in Conns : ShutClose(c)
    \/ ShutStopClear
    \/ ShutStopReturn

SpecShut == InitShut /\ [][NextShut]_vars

\* C23: WebSocket connection cleanup is guaranteed: once the message loop of
\* a connection has exited (handleConnection has returned), for whatever
\* reason, the connection is no longer in the connection set and its socket
\* is closed; and every connection in the set has a live message loop or is
\* between its registration and the start of its loop.
C23_CleanupGuaranteed ==
    \A c \in Conns :
        /\ loop[c] = "exited" => c \notin conns /\ sock[c] = "closed"
        /\ c \in conns => loop[c] \in {"registered", "read"}

\* C23's case: Stop has cleared the set, the loop of connection 1 has exited
\* and been cleaned up, and connection 2, registered since, is in the set.
C23_Witness ==
    /\ stopPc # "idle"
    /\ loop[1] = "exited" /\ sock[1] = "closed" /\ 1 \notin conns
    /\ loop[2] \in {"registered", "read"} /\ 2 \in conns

\* C24: once WebSocketServer.Stop has returned, under every interleaving
\* with upgrade requests, the connection set is empty and no connection
\* message loop is running (or about to be started) on an open socket.
C24_StopLeavesNothing ==
    stopPc = "returned"
    => /\ conns = {}
       /\ \A c \in Conns :
              loop[c] \in {"upgraded", "registered", "read"} => sock[c] # "open"

(***************************************************************************)
(* Construction and serialization of one Message: a construction helper is *)
(* called, the Message is marshalled, unmarshalled and marshalled again    *)
(* (encoding/json over the field tags of mcp.Message).                     *)
(***************************************************************************)
\* Message.Error: a nil *Error, or one with a code.
NoError == [set |-> FALSE, code |-> 0]

\* A Message as a Go value.  params is the raw JSON text ("": nil).
GoMessage(id, method, params, result, err) ==
    [jsonrpc |-> JSONRPCVersion, id |-> id, method |-> method,
     params |-> params, result |-> result, err |-> err]

\* paramsBytes, _ := json.Marshal(params), for nil params and for an object.
MarshalParams(p) == IF p = "nil" THEN "null" ELSE "{}"

NewRequest(id, method, params) ==
    GoMessage(id, method, MarshalParams(params), GoNil, NoError)

NewResponse(id, result) == GoMessage(id, "", "", result, NoError)

NewErrorResponse(id, code) ==
    GoMessage(id, "", "", GoNil, [set |-> TRUE, code |-> code])

NewNotification(method, params) ==
    GoMessage(GoNil, method, MarshalParams(params), GoNil, NoError)

\* A field that omitempty left out of the JSON document.
AbsentTok == [j |-> "absent", s |-> "", n |-> 0, hi |-> 0]
AbsentText == "<absent>"

\* json.Marshal(msg): jsonrpc always; id and result unless nil; method and
\* params unless empty; error unless nil.
MarshalMessage(gm) ==
    [jsonrpc |-> gm.jsonrpc,
     id |-> IF gm.id = GoNil THEN AbsentTok ELSE JSONEncodeId(gm.id),
     method |-> IF gm.method = "" THEN AbsentText ELSE gm.method,
     params |-> IF gm.params = "" THEN AbsentText ELSE gm.params,
     result |-> IF gm.result = GoNil THEN AbsentTok ELSE JSONEncodeId(gm.result),
     error |-> gm.err]

\* json.Unmarshal(data, &msg): a field that is absent keeps its zero value,
\* id and result are decoded into interface{}.
UnmarshalMessage(doc) ==
    [jsonrpc |-> doc.jsonrpc,
     id |-> IF doc.id = AbsentTok THEN GoNil ELSE JSONDecodeId(doc.id),
     method |-> IF doc.method = AbsentText THEN "" ELSE doc.method,
     params |-> IF doc.params = AbsentText THEN "" ELSE doc.params,
     result |-> IF doc.result = AbsentTok THEN GoNil
                ELSE JSONDecodeId(doc.result),
     err |-> doc.error]

\* The fields of a Go Message that Validate and the Is... methods look at.
MsgOf(gm) ==
    Msg("ok", gm.jsonrpc, IF gm.id = GoNil THEN Nil ELSE "1", gm.method,
        NoParams, gm.result # GoNil, gm.err.set)

\* The arguments handed to the helpers.
CodecIds ==
    {GoNil, GoString(""), GoString("a"), GoInt64(0), GoInt64(1),
     GoInt64Above53(1), GoInt64Above53(2), GoInt64Above53(3)}
CodecMethods == {"", "tools/list"}
CodecParams == {"nil", "object"}
CodecResults == {GoNil, GoString("content")}

NoGoMessage == GoMessage(GoNil, "", "", GoNil, NoError)

CodecCall(helper, id, method, params, result) ==
    [pc |-> "args", helper |-> helper, id |-> id, method |-> method,
     params |-> params, result |-> result, msg |-> NoGoMessage,
     doc1 |-> MarshalMessage(NoGoMessage), back |-> NoGoMessage,
     doc2 |-> MarshalMessage(NoGoMessage)]

CodecCalls ==
    {CodecCall("NewRequest", i, me, p, GoNil) :
        i \in CodecIds, me \in CodecMethods, p \in CodecParams}
    \cup {CodecCall("NewResponse", i, "", "nil", r) :
            i \in CodecIds, r \in CodecResults}
    \cup {CodecCall("NewErrorResponse", i, "", "nil", GoNil) : i \in CodecIds}
    \cup {CodecCall("NewNotification", GoNil, me, p, GoNil) :
            me \in CodecMethods, p \in CodecParams}

InitCodec ==
    /\ InitRegistryBuilt
    /\ NoServer
    /\ NoClient
    /\ probe = NoProbe
    /\ NoLife
    /\ NoConc
    /\ stopPc = "idle"
    /\ NoLate
    /\ codec \in CodecCalls

codecRest ==
    <<regVars, srvVars, cliVars, probe, lifeVars, concVars, stopPc, lateVars>>

\* The helper is called with the arguments.
CodecBuild ==
    /\ codec.pc = "args"
    /\ codec' = [codec EXCEPT
                    !.pc = "built",
                    !.msg = CASE codec.helper = "NewRequest" ->
                                   NewRequest(codec.id, codec.method, codec.params)
                              [] codec.helper = "NewResponse" ->
                                   NewResponse(codec.id, codec.result)
                              [] codec.helper = "NewErrorResponse" ->
                                   NewErrorResponse(codec.id, InternalErrorCode)
                              [] OTHER ->
                                   NewNotification(codec.method, codec.params)]
    /\ UNCHANGED codecRest

\* json.Marshal of the Message built.
CodecMarshal ==
    /\ codec.pc = "built"
    /\ codec' = [codec EXCEPT !.pc = "sent", !.doc1 = MarshalMessage(codec.msg)]
    /\ UNCHANGED codecRest

\* json.Unmarshal of that document into a Message.
CodecUnmarshal ==
    /\ codec.pc = "sent"
    /\ codec' = [codec EXCEPT !.pc = "received",
                              !.back = UnmarshalMessage(codec.doc1)]
    /\ UNCHANGED codecRest

\* json.Marshal of the Message that came back.
CodecRemarshal ==
    /\ codec.pc = "received"
    /\ codec' = [codec EXCEPT !.pc = "done",
                              !.doc2 = MarshalMessage(codec.back)]
    /\ UNCHANGED codecRest

NextCodec ==
    \/ CodecBuild
    \/ CodecMarshal
    \/ CodecUnmarshal
    \/ CodecRemarshal

SpecCodec == InitCodec /\ [][NextCodec]_vars

\* C26: round trip of a request: for every request built by NewRequest with
\* a non-nil id and a non-empty method, marshalling, unmarshalling and
\* marshalling again yields the same JSON document (same fields and values)
\* and IsRequest is true of the unmarshalled message.
C26_RequestRoundTrip ==
    /\ codec.pc = "done"
    /\ codec.helper = "NewRequest"
    /\ codec.id # GoNil /\ codec.method # ""
    => /\ codec.doc2 = codec.doc1
       /\ IsRequest(MsgOf(codec.back))

\* The classes the predicates put a Go Message in.
KindsOf(gm) ==
    {k \in {"request", "response", "notification"} :
        \/ k = "request" /\ IsRequest(MsgOf(gm))
        \/ k = "response" /\ IsResponse(MsgOf(gm))
        \/ k = "notification" /\ IsNotification(MsgOf(gm))}

\* C27: the construction helpers build a message of the intended class: for
\* every non-nil id, NewResponse(id, result), result = nil included, and
\* NewErrorResponse(id, ...) yield a message that is a response and neither
\* a request nor a notification; NewRequest(id, method) with a non-empty
\* method yields a request only; NewNotification(method) a notification only.
C27_HelpersBuildIntendedClass ==
    codec.pc \notin {"none", "args"}
    => /\ codec.helper \in {"NewResponse", "NewErrorResponse"}
          /\ codec.id # GoNil
          => KindsOf(codec.msg) = {"response"}
       /\ codec.helper = "NewRequest" /\ codec.id # GoNil /\ codec.method # ""
          => KindsOf(codec.msg) = {"request"}
       /\ codec.helper = "NewNotification" /\ codec.method # ""
          => KindsOf(codec.msg) = {"notification"}

(***************************************************************************)
(* The bounded response channel of a stdioConnection: the peer has written *)
(* more lines than the channel holds, readLoop and responseLoop run at     *)
(* their own pace.                                                         *)
(***************************************************************************)
\* Lines the peer has written beyond the capacity of the channel.
OverflowLines == 3

TotalLines == ResponseChCap + OverflowLines

InitOverflow ==
    /\ InitRegistryBuilt
    /\ NoServer
    /\ NoAux
    /\ cKind = "stdio"
    /\ running = TRUE
    /\ responses = EmptyTable
    /\ responseCh = <<>>
    /\ requestID = 1
    /\ sentReqs = <<>>
    /\ inbox = [g \in 1 .. TotalLines |->
                  [id |-> JSONEncodeId(GoString("tools-1")), gen |-> g]]
    /\ caller = Idle
    /\ waitLast = NoWait
    /\ handledGens = {}
    /\ late = {}

NextOverflow ==
    \/ ReadLoop
    \/ ResponseLoop

SpecOverflow == InitOverflow /\ [][NextOverflow]_vars

\* The lines readLoop has read so far, by their position in the stream.
LinesRead == 1 .. (TotalLines - Len(inbox))

InChannel(g) == \E i \in DOMAIN responseCh : responseCh[i].gen = g

HandlesUnclaimed ==
    \/ /\ cKind = "stdio"
       /\ responseCh # <<>> /\ responseCh' = Tail(responseCh)
       /\ Head(responseCh).id \notin DOMAIN responses
    \/ /\ cKind = "console"
       /\ inbox # <<>> /\ inbox' = Tail(inbox)
       /\ FormatV(ParsedHead.id) \notin DOMAIN responses
       /\ ~(caller.pc = "waiting" /\ FormatV(caller.id) = FormatV(ParsedHead.id))

\* C29: a received response whose id has no pending entry is discarded: on
\* the stdio connection wrapper and on the console client, handling it
\* neither creates nor changes an entry of the pending table.
C29_UnclaimedDiscarded ==
    [][HandlesUnclaimed => responses' = responses]_vars

\* C30: a pending entry lives only from send until the wait finishes: when
\* WaitForResponse(id, timeout) returns, with the response or with nil after
\* the timeout, the pending table holds no entry for id.
C30_NoEntryAfterWait ==
    waitLast.gen # 0 => ~waitLast.has

(***************************************************************************)
(* Claims C31 to C33 on the two servers, stated over last.                 *)
(***************************************************************************)
\* C31: an initialize request on an uninitialized session succeeds and sets
\* initialized whether or not its params parse: missing or wrongly shaped
\* params (or clientInfo) never produce an error response.
C31_InitializeIgnoresParams ==
    LastIsRequest("initialize") /\ ~last.preInit
    => /\ last.nresp = 1
       /\ last.resp.hasResult /\ ~last.resp.hasError
       /\ last.postInit

\* The last frame is peer input the server has to refuse: no JSON, a
\* protocol error (wrong version or shape, a call before initialize, a second
\* initialize) or a tool execution that fails (no provider has the tool).
LastIsFailingInput ==
    \/ last.msg.wire \in {"syntax", "type"}
    \/ last.msg.wire = "ok" /\ ~Validate(last.msg)
    \/ (\E me \in {"tools/list", "tools/call", "resources/read"} :
            LastIsRequest(me)) /\ ~last.preInit
    \/ LastIsRequest("initialize") /\ last.preInit
    \/ LastCallsUnknownTool /\ last.preInit

\* C32: malformed or failing peer input never ends a WebSocket connection:
\* a frame that is no valid JSON, a protocol error and a tool execution
\* failure each produce an error response, after which the loop of the
\* connection goes on to read the next frame (unless the write of a response
\* failed).
C32_FailingInputKeepsConnection ==
    mode = "websocket" /\ LastIsFailingInput
    => /\ last.nresp = 1
       /\ last.resp.hasError /\ ~last.resp.hasResult
       /\ last.wok => last.alive

\* C33: a notification (method set, id absent) never gets a response and
\* never changes the session state, on either transport and whatever its
\* method.
C33_NotificationIsSilent ==
    last.msg.wire = "ok" /\ Validate(last.msg) /\ IsNotification(last.msg)
    => /\ last.nresp = 0
       /\ StateUnchanged

(***************************************************************************)
(* Loops of a stdioConnection over Start and Stop calls: claim C36.        *)
(***************************************************************************)
\* C36: at any time at most one read loop and at most one dispatch loop are
\* active on a stdioConnection, for every sequence of Start and Stop calls.
C36_AtMostOneLoopEach ==
    readLoops <= 1 /\ respLoops <= 1

(***************************************************************************)
(* A stdioConnection that is stopped while it is in use: SendMessage, the  *)
(* read loop and the dispatch loop statement by statement, against one     *)
(* Stop call.  No line arrives on the reader unless the peer answers a     *)
(* request.                                                                *)
(***************************************************************************)
\* SendMessage calls made on the connection.
MaxSends == 2

\* The messages handed to SendMessage: two requests and a notification.
SendKinds == {"Initialize", "ListTools", "notify"}

restOfStop ==
    <<regVars, srvVars, probe, concVars, stopPc, codec, startup, dbVars, ai,
      cKind, requestID, caller, waitLast, handledGens, late, starts, waiters>>

\* The connection is constructed and either was never started or Start has
\* returned and its two goroutines stand at the head of their loops.
InitStop ==
    /\ InitRegistryBuilt
    /\ NoServer
    /\ probe = NoProbe
    /\ NoConc
    /\ stopPc = "idle"
    /\ codec = NoCodec
    /\ startup = NoStartup
    /\ NoDB
    /\ ai = NoAI
    /\ cKind = "stdio"
    /\ running \in BOOLEAN
    /\ responses = EmptyTable
    /\ responseCh = <<>>
    /\ requestID = 1
    /\ sentReqs = <<>>
    /\ inbox = <<>>
    /\ caller = Idle
    /\ waitLast = NoWait
    /\ handledGens = {}
    /\ late = {}
    /\ stopCh = "open"
    /\ stopCloses = 0
    /\ readLoops = IF running THEN 1 ELSE 0
    /\ respLoops = IF running THEN 1 ELSE 0
    /\ starts = IF running THEN 1 ELSE 0
    /\ lifeLast = NoLifeCall
    /\ sendPc = NoSend
    /\ wrote = <<>>
    /\ readPc = IF running THEN [NoRead EXCEPT !.pc = "head"] ELSE NoRead
    /\ lateStored = FALSE
    /\ waiters = [w \in Waiters |-> NoWaiter]

\* SendMessage: "if msg.IsRequest() { c.responses[msg.ID] = nil }".
SendRecords(tab, isRequest, id) ==
    IF isRequest THEN TablePut(tab, id, Awaiting) ELSE tab

\* SendMessage, the IsRunning check: the call returns an error at once, or
\* goes on to marshal and write.
SendCheck(kind) ==
    /\ cKind = "stdio" /\ Alive
    /\ sendPc.pc \in {"idle", "refused", "returned"}
    /\ sendPc.gen < MaxSends
    /\ sendPc' = [pc |-> IF running THEN "checked" ELSE "refused",
                  gen |-> sendPc.gen + 1,
                  isRequest |-> kind # "notify",
                  id |-> IF kind = "notify" THEN GoNil ELSE RequestIdOf(kind),
                  registered |-> FALSE]
    /\ UNCHANGED <<restOfStop, running, responses, responseCh, sentReqs,
                   inbox, lifeVars, wrote, readPc, lateStored>>

\* SendMessage, c.writer.Write(data).  stopped: Stop had returned by then.
SendWrite ==
    /\ cKind = "stdio" /\ Alive
    /\ sendPc.pc = "checked"
    /\ wrote' = Append(wrote, [call |-> sendPc.gen, id |-> sendPc.id,
                               stopped |-> ~running])
    /\ sentReqs' = IF sendPc.isRequest
                   THEN Append(sentReqs, [id |-> sendPc.id, answered |-> FALSE])
                   ELSE sentReqs
    /\ sendPc' = [sendPc EXCEPT !.pc = "written"]
    /\ UNCHANGED <<restOfStop, running, responses, responseCh, inbox,
                   lifeVars, readPc, lateStored>>

\* SendMessage, the awaiting entry of a request, and the return.
SendReturn ==
    /\ cKind = "stdio" /\ Alive
    /\ sendPc.pc = "written"
    /\ responses' = SendRecords(responses, sendPc.isRequest, sendPc.id)
    /\ sendPc' = [sendPc EXCEPT !.pc = "returned",
                                !.registered = sendPc.isRequest]
    /\ UNCHANGED <<restOfStop, running, responseCh, sentReqs, inbox,
                   lifeVars, wrote, readPc, lateStored>>

\* readLoop, "for c.IsRunning()": into Scan, or out of the loop.
ReadLoopHead ==
    /\ cKind = "stdio" /\ Alive
    /\ readPc.pc = "head"
    /\ readPc' = [readPc EXCEPT !.pc = IF running THEN "scan" ELSE "exited"]
    /\ readLoops' = IF running THEN readLoops ELSE readLoops - 1
    /\ UNCHANGED <<restOfStop, running, responses, responseCh, sentReqs,
                   inbox, stopCh, stopCloses, respLoops, lifeLast, sendPc,
                   wrote, lateStored>>

\* readLoop, c.scanner.Scan() returns a line, which is parsed.  Without a
\* line on the reader the goroutine stays in Scan.
ReadLoopScan ==
    /\ cKind = "stdio" /\ Alive
    /\ readPc.pc = "scan"
    /\ inbox # <<>>
    /\ inbox' = Tail(inbox)
    /\ readPc' = [pc |-> "offer", msg |-> ParsedHead,
                  afterStop |-> stopCh = "closed"]
    /\ UNCHANGED <<restOfStop, running, responses, responseCh, sentReqs,
                   lifeVars, sendPc, wrote, lateStored>>

\* The cases of readLoop's select that can proceed.
OfferReady ==
    (IF Len(responseCh) < ResponseChCap THEN {"send"} ELSE {})
    \cup (IF stopCh = "closed" THEN {"stop"} ELSE {})

\* readLoop, the select: one of the cases that can proceed is taken, the
\* default case if none can.
ReadLoopOffer(pick) ==
    /\ cKind = "stdio" /\ Alive
    /\ readPc.pc = "offer"
    /\ pick \in OfferReady \/ (OfferReady = {} /\ pick = "send")
    /\ responseCh' = IF "send" \in OfferReady /\ pick = "send"
                     THEN Append(responseCh,
                                 [msg |-> readPc.msg,
                                  afterStop |-> readPc.afterStop])
                     ELSE responseCh
    /\ readPc' = [NoRead EXCEPT !.pc = IF pick = "stop" THEN "exited"
                                       ELSE "head"]
    /\ readLoops' = IF pick = "stop" THEN readLoops - 1 ELSE readLoops
    /\ UNCHANGED <<restOfStop, running, responses, sentReqs, inbox, stopCh,
                   stopCloses, respLoops, lifeLast, sendPc, wrote, lateStored>>

\* responseLoop, "case msg := <-c.responseCh": handleResponse.
DispatchReceive ==
    /\ cKind = "stdio" /\ Alive
    /\ respLoops > 0
    /\ responseCh # <<>>
    /\ responseCh' = Tail(responseCh)
    /\ responses' = HandleResponse(responses, Head(responseCh).msg)
    /\ lateStored' = (lateStored \/
                        (/\ Head(responseCh).afterStop
                         /\ responses' # responses))
    /\ UNCHANGED <<restOfStop, running, sentReqs, inbox, lifeVars, sendPc,
                   wrote, readPc>>

NextStop ==
    \/ ConnStop
    \/ \E kind \in SendKinds : SendCheck(kind)
    \/ SendWrite
    \/ SendReturn
    \/ \E g \in 1 .. MaxSends : PeerRespond(g)
    \/ ReadLoopHead
    \/ ReadLoopScan
    \/ \E pick \in {"send", "stop"} : ReadLoopOffer(pick)
    \/ DispatchReceive
    \/ ResponseLoopExit

SpecStop == InitStop /\ [][NextStop]_vars

\* A goroutine that can take a step takes one; a select that can always
\* receive from the closed stopCh does so in the end.
SpecStopFair ==
    /\ SpecStop
    /\ WF_vars(ReadLoopHead)
    /\ WF_vars(ReadLoopScan)
    /\ WF_vars(\E pick \in {"send", "stop"} : ReadLoopOffer(pick))
    /\ WF_vars(DispatchReceive)
    /\ WF_vars(ResponseLoopExit)

\* C34: SendMessage on a connection that is not running returns an error,
\* writes nothing and adds no pending entry; under every interleaving with a
\* concurrent Stop no message is written after Stop has returned; a sent
\* message that is no request never creates a pending entry.
C34_NoWriteAfterStop ==
    /\ sendPc.pc = "refused"
       => /\ \A i \in DOMAIN wrote : wrote[i].call # sendPc.gen
          /\ ~sendPc.registered
    /\ \A i \in DOMAIN wrote : ~wrote[i].stopped
    /\ ~sendPc.isRequest => ~sendPc.registered

\* C35: after Stop has returned, the read loop and the dispatch loop both
\* terminate in the end, even if no further line arrives on the reader, and
\* no response received after Stop is written into the pending table.
C35_LoopsEndAfterStop ==
    /\ (stopCh = "closed") ~> (readLoops = 0 /\ respLoops = 0)
    /\ [](~lateStored)

(***************************************************************************)
(* Two WaitForResponse calls for the id of one request, on a               *)
(* stdioConnection or on the console client, statement by statement.       *)
(***************************************************************************)
restOfWaiters ==
    <<regVars, srvVars, probe, lifeVars, concVars, stopPc, codec, startup,
      dbVars, ai, sendPc, wrote, readPc, lateStored, cKind, running,
      responseCh, requestID, sentReqs, inbox, caller, waitLast, handledGens,
      late>>

\* Two requests (Initialize, ListTools) have been sent, and registered if
\* the connection registers its requests; nobody waits for them yet.
InitWaiters ==
    /\ InitRegistryBuilt
    /\ NoServer
    /\ probe = NoProbe
    /\ NoLife
    /\ NoConc
    /\ stopPc = "idle"
    /\ codec = NoCodec
    /\ startup = NoStartup
    /\ NoDB
    /\ ai = NoAI
    /\ sendPc = NoSend
    /\ wrote = <<>>
    /\ readPc = NoRead
    /\ lateStored = FALSE
    /\ cKind \in {"stdio", "console"}
    /\ running = TRUE
    /\ requestID = IF cKind = "console" THEN 3 ELSE 1
    /\ sentReqs = <<[id |-> IF cKind = "console" THEN GoInt64(1)
                            ELSE GoString("init-1"),
                     answered |-> FALSE],
                    [id |-> IF cKind = "console" THEN GoInt64(2)
                            ELSE GoString("tools-1"),
                     answered |-> FALSE]>>
    /\ responses = IF cKind = "stdio"
                   THEN TablePut(TablePut(EmptyTable, sentReqs[1].id, Awaiting),
                                 sentReqs[2].id, Awaiting)
                   ELSE EmptyTable
    /\ responseCh = <<>>
    /\ inbox = <<>>
    /\ caller = Idle
    /\ waitLast = NoWait
    /\ handledGens = {}
    /\ late = {}
    /\ waiters = [w \in Waiters |-> NoWaiter]

\* A goroutine calls WaitForResponse(id, timeout) with the id of request g.
WaiterCall(w, g) ==
    /\ waiters[w].pc = "none"
    /\ g \in DOMAIN sentReqs
    /\ waiters' = [waiters EXCEPT ![w] = [pc |-> "polling", gen |-> g,
                                          id |-> sentReqs[g].id,
                                          ret |-> NoClientMsg]]
    /\ UNCHANGED <<restOfWaiters, responses>>

\* WaitForResponse, under the read lock: the entry holds a response, which
\* the call takes along; the lock is released.
WaiterFinds(w) ==
    /\ waiters[w].pc = "polling"
    /\ WaitFinds(responses, waiters[w].id)
    /\ waiters' = [waiters EXCEPT
                      ![w].pc = "found",
                      ![w].ret = responses[TableKey(waiters[w].id)]]
    /\ UNCHANGED <<restOfWaiters, responses>>

\* WaitForResponse, under the write lock: delete(c.responses, id); the
\* response found before is returned.
WaiterDeletes(w) ==
    /\ waiters[w].pc = "found"
    /\ responses' = TableDelete(responses, TableKey(waiters[w].id))
    /\ waiters' = [waiters EXCEPT ![w].pc = "returned"]
    /\ UNCHANGED restOfWaiters

\* WaitForResponse: the timeout has elapsed at the loop condition; nil.
WaiterTimesOut(w) ==
    /\ waiters[w].pc = "polling"
    /\ waiters' = [waiters EXCEPT ![w].pc = "returned",
                                  ![w].ret = NoClientMsg]
    /\ UNCHANGED <<restOfWaiters, responses>>

NextWaiters ==
    \/ \E w \in Waiters, g \in {1, 2} : WaiterCall(w, g)
    \/ \E w \in Waiters : WaiterFinds(w)
    \/ \E w \in Waiters : WaiterDeletes(w)
    \/ \E w \in Waiters : WaiterTimesOut(w)
    \/ \E g \in {1, 2} : PeerRespond(g)
    \/ ReadLoop
    \/ ResponseLoop
    \/ HandleMCPMessages

SpecWaiters == InitWaiters /\ [][NextWaiters]_vars

\* C37: each received response is consumed by at most one waiter: of two
\* concurrent WaitForResponse calls for the same id, with one response of
\* that id arriving, at most one returns the response.
C37_OneWaiterPerResponse ==
    \A w1, w2 \in Waiters :
        /\ w1 # w2
        /\ waiters[w1].gen = waiters[w2].gen
        /\ waiters[w1].pc = "returned" /\ waiters[w1].ret # NoClientMsg
        /\ waiters[w2].pc = "returned"
        => waiters[w2].ret = NoClientMsg

(***************************************************************************)
(* Startup (cmd/server): the tool manager is built, createStdioServer or   *)
(* createWebSocketServer copies its tools into the server's table, and     *)
(* peers then list and call tools.                                         *)
(***************************************************************************)
\* NewToolManager has run over groups that may share names.
InitStartup ==
    /\ groups \in [1 .. NumGroups -> ToolLists]
    /\ toolMap = BuildToolMap(groups, NumGroups)
    /\ regPos = NumGroups
    /\ execLast = NoExec
    /\ NoServer
    /\ NoClient
    /\ probe = NoProbe
    /\ NoLife
    /\ NoConc
    /\ stopPc = "idle"
    /\ codec = NoCodec
    /\ NoStep
    /\ NoDB
    /\ ai = NoAI
    /\ startup = [pc |-> "create", tools |-> {}, built |-> toolMap,
                  listed |-> <<>>, lists |-> 0]

restOfStartup ==
    <<groups, toolMap, regPos, srvVars, cliVars, probe, lifeVars, concVars,
      stopPc, codec, stepVars, dbVars, ai>>

\* The table after "for _, tool := range toolManager.GetTools() {
\* server.RegisterTool(tool) }" as it would be if the loop left out the last
\* tool.
RegisterAll_DropsLast(toolList) ==
    {toolList[i] : i \in 1 .. Len(toolList) - 1}

\* The keys of BaseServer.tools after "for _, tool := range
\* toolManager.GetTools() { server.RegisterTool(tool) }".
RegisterAll(toolList) == Range(toolList)

\* "for _, tool := range s.tools { tools = append(tools, tool) }": every key
\* once, in an order the map chooses.
Listings(names) ==
    {sq \in [1 .. Cardinality(names) -> names] : Range(sq) = names}

\* createStdioServer / createWebSocketServer.
CreateServer ==
    /\ startup.pc = "create"
    /\ startup' = [startup EXCEPT !.pc = "serving",
                                  !.tools = RegisterAll(GetTools),
                                  !.built = toolMap]
    /\ UNCHANGED <<restOfStartup, execLast>>

\* An initialized peer sends tools/list.
ToolsList ==
    /\ startup.pc = "serving"
    /\ \E sq \in Listings(startup.tools) :
          startup' = [startup EXCEPT !.listed = sq, !.lists = 1]
    /\ UNCHANGED <<restOfStartup, execLast>>

NextStartup ==
    \/ CreateServer
    \/ ToolsList
    \/ \E name \in QueryNames, pout \in ProviderOutcomes :
          CallExecuteTool(name, "{}", pout)

SpecStartup == InitStartup /\ [][NextStartup]_vars

\* C38: after startup the names tools/list returns are the keys of the
\* dispatch registry, each listed once; every listed tool is dispatched by
\* ExecuteTool to a provider, every dispatchable name is listed, and no
\* tools/list or ExecuteTool call changes the registry.
C38_ListedEqualsDispatchable ==
    startup.pc = "serving"
    => /\ toolMap = startup.built
       /\ startup.tools = DOMAIN toolMap
       /\ startup.lists > 0
          => /\ Range(startup.listed) = DOMAIN toolMap
             /\ Len(startup.listed) = Cardinality(DOMAIN toolMap)
             /\ execLast.name \in Range(startup.listed)
                => /\ execLast.ret.err # "tool not found"
                   /\ Len(execLast.ret.calls) = 1
             /\ execLast.name # Nil /\ execLast.ret.err # "tool not found"
                => execLast.name \in Range(startup.listed)

\* C38's case: two groups list the same name, the server lists two names,
\* and a listed tool has been executed.
C38_Witness ==
    /\ startup.pc = "serving"
    /\ Len(GetTools) > Cardinality(Range(GetTools))
    /\ Len(startup.listed) = 2
    /\ execLast.name \in Range(startup.listed)
    /\ Len(execLast.ret.calls) = 1

(***************************************************************************)
(* tools.DatabaseTools: the alias table over db_connect and db_query.      *)
(***************************************************************************)
\* Databases one DatabaseTools value connects to successfully.
MaxDBs == 3

Aliases == {"main", "replica"}

\* What sql.Open and db.PingContext do for the driver and dsn given.
ConnectOutcomes == {"ok", "open fails", "ping fails"}

\* executeDBConnect: "if existingDB, exists := t.aliasMap[alias]; exists {
\* existingDB.Close() }".
CloseExisting(am, cs, alias) ==
    IF alias \in DOMAIN am THEN [cs EXCEPT ![am[alias]] = "closed"] ELSE cs

\* executeDBConnect with well-typed arguments: the table, the connections
\* and whether an error is returned.
ExecuteDBConnect(am, cs, alias, outcome) ==
    LET closed == CloseExisting(am, cs, alias)
    IN  IF outcome # "ok"
        THEN [aliasMap |-> am, connections |-> closed, err |-> TRUE]
        ELSE [aliasMap |-> [a \in DOMAIN am \cup {alias} |->
                              IF a = alias THEN Len(closed) + 1 ELSE am[a]],
              connections |-> Append(closed, "open"),
              err |-> FALSE]

\* executeDBQuery with a SELECT statement: the *sql.DB it runs the query
\* on (0: none) and whether an error is returned; a closed *sql.DB fails
\* every query.
ExecuteDBQuery(am, cs, alias) ==
    IF alias \notin DOMAIN am THEN [db |-> 0, err |-> TRUE]
    ELSE [db |-> am[alias], err |-> cs[am[alias]] = "closed"]

\* NewDatabaseTools: the default connection of the configuration is
\* registered under its alias, or could not be established.
InitDB ==
    /\ InitRegistryBuilt
    /\ NoServer
    /\ NoClient
    /\ probe = NoProbe
    /\ NoLife
    /\ NoConc
    /\ stopPc = "idle"
    /\ codec = NoCodec
    /\ NoStep
    /\ startup = NoStartup
    /\ ai = NoAI
    /\ \E def \in BOOLEAN :
          /\ aliasMap = IF def THEN [a \in {"main"} |-> 1]
                        ELSE [a \in {} |-> 0]
          /\ connections = IF def THEN <<"open">> ELSE <<>>
    /\ dbLast = NoDBCall

restOfDB ==
    <<regVars, srvVars, cliVars, probe, lifeVars, concVars, stopPc, codec,
      stepVars, startup, ai>>

\* A tools/call of db_connect.
DBConnect(alias, outcome) ==
    /\ outcome = "ok" => Len(connections) < MaxDBs
    /\ LET o == ExecuteDBConnect(aliasMap, connections, alias, outcome)
       IN  /\ aliasMap' = o.aliasMap
           /\ connections' = o.connections
           /\ dbLast' = [op |-> "db_connect", alias |-> alias,
                         err |-> o.err, db |-> 0,
                         preMap |-> aliasMap, preConns |-> connections]
    /\ UNCHANGED restOfDB

\* A tools/call of db_query.
DBQuery(alias) ==
    /\ LET o == ExecuteDBQuery(aliasMap, connections, alias)
       IN  dbLast' = [op |-> "db_query", alias |-> alias, err |-> o.err,
                      db |-> o.db, preMap |-> aliasMap,
                      preConns |-> connections]
    /\ UNCHANGED <<restOfDB, aliasMap, connections>>

NextDB ==
    \/ \E alias \in Aliases, outcome \in ConnectOutcomes :
          DBConnect(alias, outcome)
    \/ \E alias \in Aliases : DBQuery(alias)

SpecDB == InitDB /\ [][NextDB]_vars

\* C39: db_connect leaves the alias table unchanged on failure: if opening
\* or pinging the new database fails, the call returns an error and a
\* connection registered under the alias before is still open and still the
\* one db_query uses for the alias.
C39_FailedConnectKeepsAlias ==
    /\ dbLast.op = "db_connect" /\ dbLast.err
       /\ dbLast.alias \in DOMAIN dbLast.preMap
       /\ dbLast.preConns[dbLast.preMap[dbLast.alias]] = "open"
       => /\ aliasMap = dbLast.preMap
          /\ connections[aliasMap[dbLast.alias]] = "open"
    /\ dbLast.op = "db_query"
       /\ dbLast.alias \in DOMAIN aliasMap
       => /\ dbLast.db = aliasMap[dbLast.alias]
          /\ ~dbLast.err

(***************************************************************************)
(* tools.AITools.callAIWithTimeout: one call, its attempts on the          *)
(* provider, and the 120 s deadline or a cancellation of the caller's      *)
(* context coming in at any moment.  Every provider.Call returns.          *)
(***************************************************************************)
\* maxRetries := 2
MaxRetries == 2

\* What the provider answers on each attempt, should it be asked: a
\* response, an error of its own, or the error of a context whose deadline
\* passed during the call.
Scripts == [1 .. MaxRetries + 1 -> {"ok", "error", "timeout"}]

\* The loop body after provider.Call as it would be if a nil error did not
\* end the loop.
AfterCall_IgnoresSuccess(attempt, outcome, ctxErr) ==
    IF attempt = MaxRetries
    THEN [done |-> TRUE, ret |-> "error"]
    ELSE [done |-> FALSE, ret |-> "none"]

\* The loop body after provider.Call: return the response, return an error
\* on the last attempt, or go round again (the deadline branch continues,
\* the other branch falls out of its if).
AfterCall(attempt, outcome, ctxErr) ==
    IF outcome = "ok" THEN [done |-> TRUE, ret |-> "response"]
    ELSE IF ctxErr = "deadline"
         THEN IF attempt = MaxRetries
              THEN [done |-> TRUE, ret |-> "error"]
              ELSE [done |-> FALSE, ret |-> "none"]
         ELSE IF attempt = MaxRetries
              THEN [done |-> TRUE, ret |-> "error"]
              ELSE [done |-> FALSE, ret |-> "none"]

\* "for attempt := 0; attempt <= maxRetries; attempt++".
LoopContinues(attempt) == attempt <= MaxRetries

InitAI ==
    /\ InitRegistryBuilt
    /\ NoServer
    /\ NoClient
    /\ probe = NoProbe
    /\ NoLife
    /\ NoConc
    /\ stopPc = "idle"
    /\ codec = NoCodec
    /\ NoStep
    /\ startup = NoStartup
    /\ NoDB
    /\ \E sc \in Scripts :
          ai = [pc |-> "call", attempt |-> 0, script |-> sc,
                outcomes |-> <<>>, ctxErr |-> "none", ret |-> "none"]

restOfAI ==
    <<regVars, srvVars, cliVars, probe, lifeVars, concVars, stopPc, codec,
      stepVars, startup, dbVars>>

\* provider.Call returns, and what the loop does with its result.
AICall ==
    /\ ai.pc = "call"
    /\ LET outcome == ai.script[ai.attempt + 1]
           ctxNow == IF outcome = "timeout" /\ ai.ctxErr = "none"
                     THEN "deadline" ELSE ai.ctxErr
           nx == AfterCall(ai.attempt, outcome, ctxNow)
           called == [ai EXCEPT !.outcomes = Append(ai.outcomes, outcome),
                                !.ctxErr = ctxNow]
       IN  ai' = IF nx.done
                 THEN [called EXCEPT !.pc = "done", !.ret = nx.ret]
                 ELSE IF LoopContinues(ai.attempt + 1)
                      THEN [called EXCEPT !.pc = "sleep",
                                          !.attempt = ai.attempt + 1]
                      ELSE [called EXCEPT !.pc = "done", !.ret = "error",
                                          !.attempt = ai.attempt + 1]
    /\ UNCHANGED restOfAI

\* time.Sleep before a retry returns.
AISleep ==
    /\ ai.pc = "sleep"
    /\ ai' = [ai EXCEPT !.pc = "call"]
    /\ UNCHANGED restOfAI

\* The 120 s of context.WithTimeout elapse.
AIDeadline ==
    /\ ai.pc \in {"call", "sleep"} /\ ai.ctxErr = "none"
    /\ ai' = [ai EXCEPT !.ctxErr = "deadline"]
    /\ UNCHANGED restOfAI

\* The caller's context is cancelled.
AICancel ==
    /\ ai.pc \in {"call", "sleep"} /\ ai.ctxErr = "none"
    /\ ai' = [ai EXCEPT !.ctxErr = "canceled"]
    /\ UNCHANGED restOfAI

NextAI ==
    \/ AICall
    \/ AISleep
    \/ AIDeadline
    \/ AICancel

\* The goroutine running the call is scheduled; Sleep and Call return.
SpecAI ==
    /\ InitAI /\ [][NextAI]_vars
    /\ WF_vars(AICall \/ AISleep)

\* The calls made so far and what was returned agree with the claim.
AICallsAsClaimed ==
    /\ Len(ai.outcomes) <= MaxRetries + 1
    /\ ai.pc = "done"
       => /\ Len(ai.outcomes) >= 1
          /\ ai.ret = "response"
             => /\ ai.outcomes[Len(ai.outcomes)] = "ok"
                /\ \A i \in 1 .. Len(ai.outcomes) - 1 :
                      ai.outcomes[i] # "ok"
          /\ ai.ret = "error"
             <=> \A i \in 1 .. Len(ai.outcomes) : ai.outcomes[i] # "ok"
          /\ ai.ret \in {"response", "error"}

\* C40: callAIWithTimeout always terminates, after calling the provider at
\* least once and at most 3 times; it returns the first successful response
\* without further calls, and returns an error if and only if all attempts
\* made failed.
C40_BoundedRetries ==
    /\ [](ai.pc # "none" => AICallsAsClaimed)
    /\ (ai.pc # "none") ~> (ai.pc = "done")

\* C40's case: the first attempt failed, the second ran into the deadline,
\* the third succeeded and its response was returned.
C40_Witness ==
    /\ ai.pc = "done"
    /\ ai.outcomes = <<"error", "timeout", "ok">>
    /\ ai.ctxErr = "deadline"
    /\ ai.ret = "response"

====
